---------------------------- MODULE Spec2Model ----------------------------
(***************************************************************************)
(* Model of the SCTE-35 Splice Information Table generator                 *)
(* (lib/upipe-ts/upipe_ts_scte35_generator.c).                             *)
(*                                                                         *)
(* The state is the private context struct upipe_ts_scte35g; there is one  *)
(* action per entry point of the pipe (input, SET_FLOW_DEF,                *)
(* SET_SCTE35_INTERVAL, PREPARE).  The helpers take and return a record    *)
(* that mirrors the struct, so that a handler calling another function     *)
(* (input -> flush -> input_insert ...) is one atomic action.              *)
(*                                                                         *)
(* uint64_t values are kept exact: a value is a tuple of four 16-bit limbs,*)
(* most significant first, and addition wraps modulo 2^64 as in C.         *)
(***************************************************************************)
EXTENDS Integers, Sequences, FiniteSets, TLC

(***************************************************************************)
(* uint64_t arithmetic on 16-bit limbs                                     *)
(***************************************************************************)
Limb == 2 ^ 16

\* the uint64_t whose value is the small natural n (n < 2^31)
U64(n) == <<0, 0, n \div Limb, n % Limb>>

UINT64_MAX == <<Limb - 1, Limb - 1, Limb - 1, Limb - 1>>

\* the carries of a + b, limb by limb (index 4 is the least significant limb)
Carry4(a, b) == (a[4] + b[4]) \div Limb
Carry3(a, b) == (a[3] + b[3] + Carry4(a, b)) \div Limb
Carry2(a, b) == (a[2] + b[2] + Carry3(a, b)) \div Limb
Carry1(a, b) == (a[1] + b[1] + Carry2(a, b)) \div Limb

\* a + b in uint64_t: the carry out of the top limb is lost
Add64(a, b) ==
    << (a[1] + b[1] + Carry2(a, b)) % Limb,
       (a[2] + b[2] + Carry3(a, b)) % Limb,
       (a[3] + b[3] + Carry4(a, b)) % Limb,
       (a[4] + b[4]) % Limb >>

\* a < b on uint64_t
Lt64(a, b) ==
    \/ a[1] < b[1]
    \/ a[1] = b[1] /\ a[2] < b[2]
    \/ a[1] = b[1] /\ a[2] = b[2] /\ a[3] < b[3]
    \/ a[1] = b[1] /\ a[2] = b[2] /\ a[3] = b[3] /\ a[4] < b[4]

Gt64(a, b) == Lt64(b, a)

\* a / d in uint64_t for a small divisor d (long division, limb by limb)
Div64(a, d) ==
    LET r1 == a[1] % d
        n2 == r1 * Limb + a[2]
        r2 == n2 % d
        n3 == r2 * Limb + a[3]
        r3 == n3 % d
        n4 == r3 * Limb + a[4]
    IN  << a[1] \div d, n2 \div d, n3 \div d, n4 \div d >>

\* a % 2^33: 2^33 = 2 * 2^32, so bit 0 of limb 2 and the two low limbs stay
Mod2_33(a) == << 0, a[2] % 2, a[3], a[4] >>

\* a * k in uint64_t for a small factor k (k < 2^15)
Mul64(a, k) ==
    LET p4 == a[4] * k
        p3 == a[3] * k + p4 \div Limb
        p2 == a[2] * k + p3 \div Limb
        p1 == a[1] * k + p2 \div Limb
    IN  << p1 % Limb, p2 % Limb, p3 % Limb, p4 % Limb >>

\* a - b in uint64_t (wraps)
Sub64(a, b) ==
    Add64(Add64(a, << Limb - 1 - b[1], Limb - 1 - b[2],
                      Limb - 1 - b[3], Limb - 1 - b[4] >>), U64(1))

\* bit i of a (bit 0 is the least significant)
Bit64(a, i) == (a[4 - (i \div 16)] \div (2 ^ (i % 16))) % 2

\* a with bit i set
SetBit64(a, i) == [ a EXCEPT ![4 - (i \div 16)] = @ + 2 ^ (i % 16) ]

\* 2 * a + bit in uint64_t (wraps)
Shl64(a, bit) == Add64(Add64(a, a), U64(bit))

\* binary long division of a by d, from bit i down to bit 0;
\* qr is [q, r], the quotient and the remainder so far
RECURSIVE DivLoop(_, _, _, _)
DivLoop(a, d, i, qr) ==
    IF i < 0 THEN qr
    ELSE LET r2 == Shl64(qr.r, Bit64(a, i))
         IN  IF Bit64(qr.r, 63) = 1 \/ ~Lt64(r2, d)
             THEN DivLoop(a, d, i - 1,
                          [ q |-> SetBit64(qr.q, i), r |-> Sub64(r2, d) ])
             ELSE DivLoop(a, d, i - 1, [ q |-> qr.q, r |-> r2 ])

\* a / d in uint64_t, d # 0.  The three cases give the same quotient; the
\* first two only spare the bit-by-bit loop.
DivU64(a, d) ==
    IF Lt64(a, d) THEN U64(0)
    ELSE IF d[1] = 0 /\ d[2] = 0 /\ d[3] = 0 /\ d[4] < 2 ^ 15
         THEN Div64(a, d[4])
    ELSE DivLoop(a, d, 63, [ q |-> U64(0), r |-> U64(0) ]).q

(***************************************************************************)
(* Program constants                                                       *)
(***************************************************************************)
UCLOCK_FREQ == 27000000
CLOCK_SCALE == UCLOCK_FREQ \div 90000
TB_RATE_PSI == 125000
TS_SIZE == 188
TS_HEADER_SIZE == 4

SCTE35_NULL_COMMAND == 0
SCTE35_INSERT_COMMAND == 5
SCTE35_TIME_SIGNAL_COMMAND == 6

(***************************************************************************)
(* Optional values: <<>> is "absent", <<v>> is "present with value v".     *)
(* Get(attr, dflt) is the idiom  "x = dflt; uref_..._get_...(uref, &x);".  *)
(***************************************************************************)
None == <<>>
Some(v) == <<v>>
Get(attr, dflt) == IF attr = None THEN dflt ELSE attr[1]

(***************************************************************************)
(* Input records (struct uref).  isnull is "uref == NULL", udict is        *)
(* "uref->udict != NULL"; the attributes are optional.  desc is the        *)
(* splice descriptor a continuation record carries, as the byte run        *)
(* <<tag, descriptor_length, payload...>>.                                 *)
(***************************************************************************)
Uref(ct, start, end, pts_prog, duration, pts_sys, event_id, desc) ==
    [ isnull |-> FALSE, udict |-> TRUE, command_type |-> ct,
      start |-> start, end |-> end,
      pts_prog |-> pts_prog, duration |-> duration, pts_sys |-> pts_sys,
      event_id |-> event_id, cancel |-> FALSE, out_of_network |-> TRUE,
      auto_return |-> (duration # None), unique_program_id |-> Some(66),
      desc |-> desc ]

\* the two shapes of an "empty event": a NULL uref, a uref without attributes
NullUref ==
    [ Uref(None, FALSE, FALSE, None, None, None, None, None)
        EXCEPT !.isnull = TRUE, !.udict = FALSE ]
NoDictUref ==
    [ Uref(None, FALSE, FALSE, None, None, None, None, None)
        EXCEPT !.udict = FALSE ]

(***************************************************************************)
(* Sections.  A section is kept as the values of the fields the generator  *)
(* writes into the block: length is section_length, command_length is      *)
(* splice_command_length, desclength is descriptor_loop_length, descl the  *)
(* descriptors written behind it, crc what psi_set_crc wrote and size the  *)
(* size of the block.                                                      *)
(***************************************************************************)

\* the sizes of <bitstream/mpeg/psi.h> and <bitstream/scte/35.h>, in bytes:
\* the PSI header (table_id and section_length), the CRC, the largest
\* section_length of a private section; the SCTE-35 header up to and
\* including splice_command_type, descriptor_loop_length, and the parts of
\* the commands
PSI_HEADER_SIZE == 3
PSI_CRC_SIZE == 4
PSI_MAX_SIZE == 1021
DESC_HEADER_SIZE == 2
SCTE35_HEADER_SIZE == 14
SCTE35_HEADER2_SIZE == 2
SCTE35_INSERT_HEADER_SIZE == 5
SCTE35_INSERT_HEADER2_SIZE == 1
SCTE35_INSERT_FOOTER_SIZE == 4
SCTE35_SPLICE_TIME_HEADER_SIZE == 1
SCTE35_SPLICE_TIME_TIME_SIZE == 4
SCTE35_BREAK_DURATION_HEADER_SIZE == 5

\* ubuf_block_alloc(PSI_MAX_SIZE + PSI_HEADER_SIZE), scte35_init,
\* psi_set_length(PSI_MAX_SIZE), scte35_set_pts_adjustment(0) and the
\* command type
BlankSection(ct) ==
    [ table_id |-> 252, length |-> PSI_MAX_SIZE, pts_adjustment |-> 0,
      command_length |-> 0, command_type |-> ct,
      event_id |-> 0, cancel |-> FALSE, out_of_network |-> FALSE,
      program_splice |-> FALSE, duration_flag |-> FALSE,
      splice_immediate |-> FALSE, time_specified |-> FALSE,
      pts_time |-> None, break_duration |-> None,
      unique_program_id |-> 0, avail_num |-> 0, avails_expected |-> 0,
      desclength |-> 0, descl |-> <<>>,
      crc |-> None, size |-> PSI_MAX_SIZE + PSI_HEADER_SIZE ]

\* scte35_null_init, scte35_insert_init, scte35_time_signal_init: the
\* command type is the one of the blank section; splice_command_length is
\* the fixed part of the command and the length the caller gives
scte35_null_init(s) == [ s EXCEPT !.command_length = 0 ]
scte35_insert_init(s, i_length) ==
    [ s EXCEPT !.command_length = SCTE35_INSERT_HEADER_SIZE + i_length ]
scte35_time_signal_init(s, i_length) ==
    [ s EXCEPT !.command_length = SCTE35_SPLICE_TIME_HEADER_SIZE + i_length ]

\* scte35_get_descl(scte35) - scte35: the offset of the first descriptor,
\* behind the header, the command and descriptor_loop_length
scte35_get_descl(s) ==
    SCTE35_HEADER_SIZE + s.command_length + SCTE35_HEADER2_SIZE

scte35_set_desclength(s, n) == [ s EXCEPT !.desclength = n ]
psi_set_length(s, n) == [ s EXCEPT !.length = n ]
psi_get_length(s) == s.length

\* psi_set_crc: the CRC of the bytes from table_id up to the last four bytes
\* of the section, whose end section_length gives, written into these four
\* bytes.  The CRC is kept as what it was computed over: the fields as they
\* were then, and the offset at which it was written.
psi_set_crc(s) ==
    [ s EXCEPT !.crc = Some([ over |-> s,
                              at |-> psi_get_length(s) + PSI_HEADER_SIZE
                                       - PSI_CRC_SIZE ]) ]

\* ubuf_block_resize(ubuf, 0, size): the block cannot grow beyond what was
\* allocated, and the result of the call is not read
ubuf_block_resize(s, size) ==
    IF size <= PSI_MAX_SIZE + PSI_HEADER_SIZE
    THEN [ s EXCEPT !.size = size ]
    ELSE s

\* the end of the three synthesizers: scte35_set_desclength,
\* psi_set_length, psi_set_crc, then the block is trimmed to scte35_size
FinishSection(s, descl_length) ==
    LET s1 == scte35_set_desclength(s, descl_length)
        s2 == psi_set_length(s1, scte35_get_descl(s1) + PSI_CRC_SIZE
                                   - PSI_HEADER_SIZE + descl_length)
        s3 == psi_set_crc(s2)
    IN  ubuf_block_resize(s3, psi_get_length(s3) + PSI_HEADER_SIZE)

\* the splice_null section written by upipe_ts_scte35g_build_null
NullSection ==
    FinishSection(scte35_null_init(BlankSection(SCTE35_NULL_COMMAND)), 0)

\* a variant of PtsTime that does not reduce the value to 33 bits
pts_time_without_wrap(v) == Div64(v, CLOCK_SCALE)

\* (v / CLOCK_SCALE) % POW2_33
PtsTime(v) == Mod2_33(Div64(v, CLOCK_SCALE))

\* the local insert_size of upipe_ts_scte35g_input_insert
InsertSize(uref, pts_prog) ==
    IF uref.cancel THEN 0
    ELSE SCTE35_INSERT_HEADER2_SIZE + SCTE35_INSERT_FOOTER_SIZE
         + (IF pts_prog # UINT64_MAX
            THEN SCTE35_SPLICE_TIME_HEADER_SIZE + SCTE35_SPLICE_TIME_TIME_SIZE
            ELSE 0)
         + (IF Get(uref.duration, UINT64_MAX) # UINT64_MAX
            THEN SCTE35_BREAK_DURATION_HEADER_SIZE
            ELSE 0)

\* one pass of the for (;;) loop of upipe_ts_scte35g_input_insert: the
\* section written for the current value of the local pts_prog
InsertSection(uref, pts_prog) ==
    LET duration == Get(uref.duration, UINT64_MAX)
        b == [ scte35_insert_init(BlankSection(SCTE35_INSERT_COMMAND),
                                  InsertSize(uref, pts_prog)) EXCEPT
                 !.cancel = uref.cancel,
                 !.event_id = Get(uref.event_id, 0) ]
    IN  FinishSection(
          IF uref.cancel THEN b
          ELSE [ b EXCEPT
                   !.out_of_network = uref.out_of_network,
                   !.program_splice = TRUE,
                   !.duration_flag = (duration # UINT64_MAX),
                   !.splice_immediate = (pts_prog = UINT64_MAX),
                   !.time_specified = (pts_prog # UINT64_MAX),
                   !.pts_time =
                       IF pts_prog # UINT64_MAX THEN Some(PtsTime(pts_prog))
                       ELSE None,
                   !.break_duration =
                       IF duration # UINT64_MAX
                       THEN Some([ auto_return |-> uref.auto_return,
                                   duration |-> PtsTime(duration) ])
                       ELSE None,
                   !.unique_program_id =
                       Get(uref.unique_program_id, 0) % Limb ],
          0)

\* upipe_ts_scte_export_desc: the descriptor bytes of a continuation record,
\* None when the export fails
ExportDesc(uref) == uref.desc

\* scte35_splice_desc_get_length: the byte descriptor_length of a descriptor
scte35_splice_desc_get_length(desc) == desc[2]

\* the ulist_foreach of upipe_ts_scte35g_time_signal: the descriptors of the
\* records left in the list, in order, a failed export skipped
RECURSIVE ExportDescl(_)
ExportDescl(urefs) ==
    IF urefs = <<>> THEN <<>>
    ELSE IF ExportDesc(Head(urefs)) = None THEN ExportDescl(Tail(urefs))
    ELSE <<ExportDesc(Head(urefs))[1]>> \o ExportDescl(Tail(urefs))

\* the local descl_length of upipe_ts_scte35g_time_signal after the
\* ulist_foreach over the descriptors descl
RECURSIVE DesclLength(_)
DesclLength(descl) ==
    IF descl = <<>> THEN 0
    ELSE DESC_HEADER_SIZE + scte35_splice_desc_get_length(Head(descl))
         + DesclLength(Tail(descl))

\* one pass of the for (;;) loop of upipe_ts_scte35g_time_signal; pts_orig is
\* computed once before the loop and is the same in both passes
TimeSignalSection(uref, rest) ==
    LET pts_prog == Get(uref.pts_prog, UINT64_MAX)
        pts_orig == IF pts_prog # UINT64_MAX THEN PtsTime(pts_prog)
                    ELSE UINT64_MAX
        i_size == IF pts_orig # UINT64_MAX THEN SCTE35_SPLICE_TIME_TIME_SIZE
                  ELSE 0
        descl == ExportDescl(rest)
    IN  FinishSection(
          [ scte35_time_signal_init(BlankSection(SCTE35_TIME_SIGNAL_COMMAND),
                                    i_size) EXCEPT
              !.time_specified = (pts_orig # UINT64_MAX),
              !.pts_time = IF pts_orig # UINT64_MAX THEN Some(pts_orig)
                           ELSE None,
              !.descl = descl ],
          DesclLength(descl))

\* a variant of scte35_message_set_immediate that keeps the form it is
\* asked to clear
set_immediate_keeping(msg, ubuf) ==
    IF ubuf = None THEN msg ELSE [ msg EXCEPT !.immediate = ubuf ]

\* a variant of scte35_message_new that gives a Message without date the
\* last date of the clock
message_new_without_deadline(cr_sys) ==
    [ cr_sys |-> IF cr_sys = U64(0) THEN UINT64_MAX ELSE cr_sys,
      ubuf |-> None, immediate |-> None ]

\* a variant of scte35_message_new that drops the date
message_new_at_zero(cr_sys) ==
    [ cr_sys |-> U64(0), ubuf |-> None, immediate |-> None ]

(***************************************************************************)
(* struct scte35_message                                                   *)
(***************************************************************************)
scte35_message_new(cr_sys) ==
    [ cr_sys |-> cr_sys, ubuf |-> None, immediate |-> None ]

scte35_message_set_ubuf(msg, ubuf) == [ msg EXCEPT !.ubuf = ubuf ]

scte35_message_set_immediate(msg, ubuf) == [ msg EXCEPT !.immediate = ubuf ]

(***************************************************************************)
(* The handlers.  g is the private context (struct upipe_ts_scte35g) plus  *)
(* what the current call has done so far: out, the records handed to the   *)
(* output, stored, the output flow definitions stored, and fatal, the      *)
(* number of fatal events thrown.  g.live counts the objects the pipe      *)
(* holds at this point: input records accepted and not yet freed, message  *)
(* structures, byte blocks and flow definitions allocated and neither      *)
(* freed nor handed to the output.  A parameter named fail says which      *)
(* allocation of the call fails (0: none).                                 *)
(***************************************************************************)

\* n objects allocated or accepted / n objects freed or handed over
Hold(g, n) == [ g EXCEPT !.live = @ + n ]
Drop(g, n) == [ g EXCEPT !.live = @ - n ]

\* ubuf_free, uref_free of an optional pointer: a no-op on NULL
Refs(ptr) == IF ptr = None THEN 0 ELSE 1

\* scte35_message_del
scte35_message_del(g, msg) ==
    Drop(g, Refs(msg.ubuf) + Refs(msg.immediate) + 1)

\* a variant of upipe_ts_scte35g_input_insert that links the new message at
\* the head of the list
input_insert_at_head(g, fail) ==
    LET uref == Head(g.urefs)
        pts_prog == Get(uref.pts_prog, UINT64_MAX)
        msg0 == scte35_message_new(Get(uref.pts_sys, U64(0)))
        msg == IF pts_prog = UINT64_MAX
               THEN scte35_message_set_immediate(msg0,
                        Some(InsertSection(uref, UINT64_MAX)))
               ELSE scte35_message_set_immediate(
                        scte35_message_set_ubuf(msg0,
                            Some(InsertSection(uref, pts_prog))),
                        Some(InsertSection(uref, UINT64_MAX)))
    IN  [ g EXCEPT !.urefs = Tail(@),
                   !.scte35_sections = <<msg>> \o @,
                   !.scte35_cr_sys = U64(0),
                   !.live = @ + Refs(msg.ubuf) + 1 ]

\* a variant of upipe_ts_scte35g_input_insert that frees the message
\* structure alone when the block of the second pass cannot be allocated
input_insert_leaking_block(g, fail) ==
    LET uref == Head(g.urefs)
        pts_prog == Get(uref.pts_prog, UINT64_MAX)
        msg0 == scte35_message_new(Get(uref.pts_sys, U64(0)))
        g1 == Drop([ g EXCEPT !.urefs = Tail(@) ], 1)
        msg == IF pts_prog = UINT64_MAX
               THEN scte35_message_set_immediate(msg0,
                        Some(InsertSection(uref, UINT64_MAX)))
               ELSE scte35_message_set_immediate(
                        scte35_message_set_ubuf(msg0,
                            Some(InsertSection(uref, pts_prog))),
                        Some(InsertSection(uref, UINT64_MAX)))
    IN  IF fail \in 1..2 \/ (fail = 3 /\ pts_prog # UINT64_MAX)
        THEN [ g1 EXCEPT !.fatal = @ + 1,
                         !.live = @ + (IF fail = 3 THEN 1 ELSE 0) ]
        ELSE [ g1 EXCEPT !.scte35_sections = Append(@, msg),
                         !.scte35_cr_sys = U64(0),
                         !.live = @ + Refs(msg.ubuf) + 2 ]

\* upipe_ts_scte35g_input_insert.  Allocations: 1 the message, 2 the block
\* of the first pass, 3 the block of the second pass (when there is one); a
\* block that cannot be mapped for writing fails like one that cannot be
\* allocated, the block being freed as well.
upipe_ts_scte35g_input_insert(g, fail) ==
    LET uref == Head(g.urefs)
        pts_prog == Get(uref.pts_prog, UINT64_MAX)
        cr_sys == Get(uref.pts_sys, U64(0))
        g1 == Drop([ g EXCEPT !.urefs = Tail(g.urefs) ], 1)   \* uref_free
        msg0 == scte35_message_new(cr_sys)
        \* msg: the message with both forms
        Add(msg) ==
            [ Hold(g1, 1 + Refs(msg.ubuf) + Refs(msg.immediate))
                EXCEPT !.scte35_sections = Append(@, msg),
                       !.scte35_cr_sys = U64(0) ]
        \* msg1: the message after the first pass
        Second(msg1) ==
            IF fail = 3 /\ pts_prog # UINT64_MAX
            THEN [ scte35_message_del(Hold(g1, 1 + Refs(msg1.ubuf)), msg1)
                     EXCEPT !.fatal = @ + 1 ]
            ELSE Add(scte35_message_set_immediate(msg1,
                         Some(InsertSection(uref, UINT64_MAX))))
    IN  IF fail = 1
        THEN [ g1 EXCEPT !.fatal = @ + 1 ]
        ELSE IF fail = 2
        THEN [ scte35_message_del(Hold(g1, 1), msg0)
                 EXCEPT !.fatal = @ + 1 ]
        ELSE Second(IF pts_prog = UINT64_MAX THEN msg0
                    ELSE scte35_message_set_ubuf(msg0,
                             Some(InsertSection(uref, pts_prog))))

\* a variant of upipe_ts_scte35g_time_signal that builds the immediate form
\* only
time_signal_immediate_only(g, fail) ==
    LET uref == Head(g.urefs)
        rest == Tail(g.urefs)
        msg == scte35_message_set_immediate(
                   scte35_message_new(Get(uref.pts_sys, U64(0))),
                   Some(TimeSignalSection(uref, rest)))
    IN  [ g EXCEPT !.urefs = rest,
                   !.scte35_sections = Append(@, msg),
                   !.scte35_cr_sys = U64(0),
                   !.live = @ + 1 ]

\* upipe_ts_scte35g_time_signal; allocations as in input_insert
upipe_ts_scte35g_time_signal(g, fail) ==
    LET uref == Head(g.urefs)
        rest == Tail(g.urefs)
        pts_prog == Get(uref.pts_prog, UINT64_MAX)
        cr_sys == Get(uref.pts_sys, U64(0))
        g1 == Drop([ g EXCEPT !.urefs = rest ], 1)            \* uref_free
        msg0 == scte35_message_new(cr_sys)
        \* msg: the message with both forms
        Add(msg) ==
            [ Hold(g1, 1 + Refs(msg.ubuf) + Refs(msg.immediate))
                EXCEPT !.scte35_sections = Append(@, msg),
                       !.scte35_cr_sys = U64(0) ]
        \* msg1: the message after the first pass
        Second(msg1) ==
            IF fail = 3 /\ pts_prog # UINT64_MAX
            THEN [ scte35_message_del(Hold(g1, 1 + Refs(msg1.ubuf)), msg1)
                     EXCEPT !.fatal = @ + 1 ]
            ELSE Add(scte35_message_set_immediate(msg1,
                         Some(TimeSignalSection(uref, rest))))
    IN  IF fail = 1
        THEN [ g1 EXCEPT !.fatal = @ + 1 ]
        ELSE IF fail = 2
        THEN [ scte35_message_del(Hold(g1, 1), msg0)
                 EXCEPT !.fatal = @ + 1 ]
        ELSE Second(IF pts_prog = UINT64_MAX THEN msg0
                    ELSE scte35_message_set_ubuf(msg0,
                             Some(TimeSignalSection(uref, rest))))

\* a variant of upipe_ts_scte35g_build_null that also forces the next
\* emission, as the synthesis of an event does
build_null_forcing(g, fail) ==
    IF g.flow_def = None THEN g
    ELSE IF fail = 1 THEN [ g EXCEPT !.fatal = @ + 1 ]
    ELSE [ Drop(Hold(g, 1), Refs(g.scte35_null_section))
             EXCEPT !.scte35_null_section = Some(NullSection),
                    !.scte35_cr_sys = U64(0) ]

\* upipe_ts_scte35g_build_null; allocation 1 is the block.  The block
\* replaces the previous null section, which is freed.
upipe_ts_scte35g_build_null(g, fail) ==
    IF g.flow_def = None THEN g
    ELSE IF fail = 1 THEN [ g EXCEPT !.fatal = @ + 1 ]
    ELSE [ Drop(Hold(g, 1), Refs(g.scte35_null_section))
             EXCEPT !.scte35_null_section = Some(NullSection) ]

\* a variant of upipe_ts_scte35g_flush that reads the command type of the
\* last record of the list
flush_by_last_fragment(g, fail) ==
    IF g.urefs = <<>> THEN g
    ELSE LET ct == g.urefs[Len(g.urefs)].command_type
             supported == ct = None \/ ct[1] \in { SCTE35_INSERT_COMMAND,
                              SCTE35_NULL_COMMAND, SCTE35_TIME_SIGNAL_COMMAND }
             Pop(g1) == [ Drop(g1, Len(g1.urefs)) EXCEPT !.urefs = <<>> ]
         IN  IF ~supported THEN g
             ELSE Pop(IF ct = None THEN g
                      ELSE IF ct[1] = SCTE35_INSERT_COMMAND
                           THEN upipe_ts_scte35g_input_insert(g, fail)
                      ELSE IF ct[1] = SCTE35_NULL_COMMAND
                           THEN upipe_ts_scte35g_build_null(g, fail)
                      ELSE upipe_ts_scte35g_time_signal(g, fail))

\* upipe_ts_scte35g_flush
upipe_ts_scte35g_flush(g, fail) ==
    IF g.urefs = <<>> THEN g
    ELSE LET ct == Head(g.urefs).command_type
             supported == ct = None \/ ct[1] \in { SCTE35_INSERT_COMMAND,
                              SCTE35_NULL_COMMAND, SCTE35_TIME_SIGNAL_COMMAND }
             \* the while loop: pop, uref_free
             Pop(g1) == [ Drop(g1, Len(g1.urefs)) EXCEPT !.urefs = <<>> ]
         IN  IF ~supported THEN g             \* default: return
             ELSE Pop(IF ct = None THEN g
                      ELSE IF ct[1] = SCTE35_INSERT_COMMAND
                           THEN upipe_ts_scte35g_input_insert(g, fail)
                      ELSE IF ct[1] = SCTE35_NULL_COMMAND
                           THEN upipe_ts_scte35g_build_null(g, fail)
                      ELSE upipe_ts_scte35g_time_signal(g, fail))

\* a variant of upipe_ts_scte35g_input that releases on every push
input_releasing_always(g, uref, fail1, fail2) ==
    IF uref.command_type = None THEN g
    ELSE LET forced == uref.start /\ g.urefs # <<>>
             g1 == IF forced THEN upipe_ts_scte35g_flush(g, fail1) ELSE g
         IN  upipe_ts_scte35g_flush(
                 Hold([ g1 EXCEPT !.urefs = Append(@, uref) ], 1), fail2)

\* a variant of upipe_ts_scte35g_input without the forced flush
input_without_forced_flush(g, uref, fail1, fail2) ==
    IF uref.command_type = None THEN g
    ELSE LET g2 == Hold([ g EXCEPT !.urefs = Append(@, uref) ], 1)
         IN  IF (g.urefs # <<>> \/ uref.start) /\ ~uref.end
             THEN g2
             ELSE upipe_ts_scte35g_flush(g2, fail2)

\* a variant of upipe_ts_scte35g_input that keeps a record without command
\* type
input_keeping_untyped(g, uref, fail1, fail2) ==
    LET g2 == Hold([ g EXCEPT !.urefs = Append(@, uref) ], 1)
    IN  IF (g.urefs # <<>> \/ uref.start) /\ ~uref.end
        THEN g2
        ELSE upipe_ts_scte35g_flush(g2, fail2)

\* upipe_ts_scte35g_input on a record with attributes: fail1 is for the
\* forced flush, fail2 for the final flush.  The record is the pipe's from
\* the call on: it is freed at once when it has no command type, linked
\* into the list otherwise.
upipe_ts_scte35g_input(g, uref, fail1, fail2) ==
    IF uref.command_type = None
    THEN Drop(Hold(g, 1), 1)                \* "no command type in packet"
    ELSE LET was_empty0 == g.urefs = <<>>
             forced == uref.start /\ ~was_empty0
             was_empty == IF forced THEN TRUE ELSE was_empty0
             Linked(g2) ==                    \* g2: after ulist_add
                 IF (~was_empty \/ uref.start) /\ ~uref.end
                 THEN g2                      \* wait for the next descriptor
                 ELSE upipe_ts_scte35g_flush(g2, fail2)
             Link(g1) ==                      \* g1: after the forced flush
                 Linked(Hold([ g1 EXCEPT !.urefs = Append(@, uref) ], 1))
         IN  Link(IF forced THEN upipe_ts_scte35g_flush(g, fail1) ELSE g)

\* a variant of upipe_ts_scte35g_send that leaves scte35_cr_sys alone
send_keeping_cr_sys(g, section, cr_sys, fail) ==
    IF fail THEN [ g EXCEPT !.fatal = @ + 1 ]
    ELSE [ g EXCEPT !.out = Append(@, [ ubuf |-> section, cr_sys |-> cr_sys,
                                        start |-> TRUE, end |-> TRUE ]) ]

\* upipe_ts_scte35g_send; fail: ubuf_dup or uref_alloc returned NULL, and
\* the one that was allocated is freed.  A record that is sent leaves the
\* pipe with its block.
upipe_ts_scte35g_send(g, section, cr_sys, fail) ==
    IF fail THEN [ Drop(Hold(g, 1), 1) EXCEPT !.fatal = @ + 1 ]
    ELSE [ Drop(Hold(g, 2), 2)
             EXCEPT !.out = Append(@, [ ubuf |-> section, cr_sys |-> cr_sys,
                                        start |-> TRUE, end |-> TRUE ]),
                    !.scte35_cr_sys = cr_sys ]

\* the ulist_delete_foreach of upipe_ts_scte35g_prepare over the messages
\* msgs still to visit.  st is [g, kept, handled, n]: the context, the
\* messages left in the list so far, the local handled, and the number of
\* calls of send so far; the calls whose number is in fails fail.
RECURSIVE PrepareLoop(_, _, _, _)
PrepareLoop(st, msgs, cr_sys, fails) ==
    IF msgs = <<>> THEN st
    ELSE LET msg == Head(msgs)
             failing == (st.n + 1) \in fails
         IN  IF Lt64(msg.cr_sys, cr_sys)
             THEN IF msg.immediate # None
                  THEN PrepareLoop(
                         [ st EXCEPT
                             !.g = scte35_message_del(
                                     upipe_ts_scte35g_send(@,
                                         msg.immediate[1], cr_sys, failing),
                                     msg),
                             !.handled = TRUE, !.n = @ + 1 ],
                         Tail(msgs), cr_sys, fails)
                  ELSE PrepareLoop(
                         [ st EXCEPT !.g = scte35_message_del(@, msg) ],
                         Tail(msgs), cr_sys, fails)
             ELSE LET msg1 == scte35_message_set_immediate(msg, None)
                      freed == Refs(msg.immediate)
                  IN  IF msg1.ubuf # None
                      THEN PrepareLoop(
                             [ st EXCEPT
                                 !.g = upipe_ts_scte35g_send(Drop(@, freed),
                                           msg1.ubuf[1], cr_sys, failing),
                                 !.kept = Append(@, msg1),
                                 !.handled = TRUE, !.n = @ + 1 ],
                             Tail(msgs), cr_sys, fails)
                      ELSE PrepareLoop(
                             [ st EXCEPT !.g = Drop(@, freed),
                                         !.kept = Append(@, msg1) ],
                             Tail(msgs), cr_sys, fails)

\* a variant of upipe_ts_scte35g_prepare without the test of the interval
prepare_ignoring_interval(g, cr_sys, fails) ==
    IF g.flow_def = None \/ g.scte35_null_section = None
    THEN g
    ELSE LET st == PrepareLoop([ g |-> g, kept |-> <<>>, handled |-> FALSE,
                                 n |-> 0 ],
                               g.scte35_sections, cr_sys, fails)
             g1 == [ st.g EXCEPT !.scte35_sections = st.kept ]
         IN  IF ~st.handled
             THEN upipe_ts_scte35g_send(g1, g1.scte35_null_section[1], cr_sys,
                                        (st.n + 1) \in fails)
             ELSE g1

\* a variant of upipe_ts_scte35g_prepare that refuses the tick at
\* scte35_cr_sys + scte35_interval
prepare_after_interval(g, cr_sys, fails) ==
    IF \/ g.flow_def = None
       \/ g.scte35_null_section = None
       \/ g.scte35_interval = U64(0)
       \/ ~Lt64(Add64(g.scte35_cr_sys, g.scte35_interval), cr_sys)
    THEN g
    ELSE LET st == PrepareLoop([ g |-> g, kept |-> <<>>, handled |-> FALSE,
                                 n |-> 0 ],
                               g.scte35_sections, cr_sys, fails)
             g1 == [ st.g EXCEPT !.scte35_sections = st.kept ]
         IN  IF ~st.handled
             THEN upipe_ts_scte35g_send(g1, g1.scte35_null_section[1], cr_sys,
                                        (st.n + 1) \in fails)
             ELSE g1

\* a variant of upipe_ts_scte35g_prepare that walks the list as if the tick
\* were one unit later: a Message expires on its deadline
prepare_expiring_on_deadline(g, cr_sys, fails) ==
    IF \/ g.flow_def = None
       \/ g.scte35_null_section = None
       \/ g.scte35_interval = U64(0)
       \/ Gt64(Add64(g.scte35_cr_sys, g.scte35_interval), cr_sys)
    THEN g
    ELSE LET st == PrepareLoop([ g |-> g, kept |-> <<>>, handled |-> FALSE,
                                 n |-> 0 ],
                               g.scte35_sections, Add64(cr_sys, U64(1)),
                               fails)
             g1 == [ st.g EXCEPT !.scte35_sections = st.kept ]
         IN  IF ~st.handled
             THEN upipe_ts_scte35g_send(g1, g1.scte35_null_section[1], cr_sys,
                                        (st.n + 1) \in fails)
             ELSE g1

\* a variant of upipe_ts_scte35g_prepare that sends the forms and leaves the
\* list as it found it
prepare_keeping_list(g, cr_sys, fails) ==
    IF \/ g.flow_def = None
       \/ g.scte35_null_section = None
       \/ g.scte35_interval = U64(0)
       \/ Gt64(Add64(g.scte35_cr_sys, g.scte35_interval), cr_sys)
    THEN g
    ELSE LET st == PrepareLoop([ g |-> g, kept |-> <<>>, handled |-> FALSE,
                                 n |-> 0 ],
                               g.scte35_sections, cr_sys, fails)
             g1 == [ st.g EXCEPT !.scte35_sections = g.scte35_sections ]
         IN  IF ~st.handled
             THEN upipe_ts_scte35g_send(g1, g1.scte35_null_section[1], cr_sys,
                                        (st.n + 1) \in fails)
             ELSE g1

\* a variant of upipe_ts_scte35g_prepare that unlinks every Message it has
\* visited
prepare_removing_sent(g, cr_sys, fails) ==
    IF \/ g.flow_def = None
       \/ g.scte35_null_section = None
       \/ g.scte35_interval = U64(0)
       \/ Gt64(Add64(g.scte35_cr_sys, g.scte35_interval), cr_sys)
    THEN g
    ELSE LET st == PrepareLoop([ g |-> g, kept |-> <<>>, handled |-> FALSE,
                                 n |-> 0 ],
                               g.scte35_sections, cr_sys, fails)
             g1 == [ st.g EXCEPT !.scte35_sections = <<>> ]
         IN  IF ~st.handled
             THEN upipe_ts_scte35g_send(g1, g1.scte35_null_section[1], cr_sys,
                                        (st.n + 1) \in fails)
             ELSE g1

\* a variant of upipe_ts_scte35g_prepare that sends the null section only
\* when it found the list empty
prepare_null_on_empty_list(g, cr_sys, fails) ==
    IF \/ g.flow_def = None
       \/ g.scte35_null_section = None
       \/ g.scte35_interval = U64(0)
       \/ Gt64(Add64(g.scte35_cr_sys, g.scte35_interval), cr_sys)
    THEN g
    ELSE LET st == PrepareLoop([ g |-> g, kept |-> <<>>, handled |-> FALSE,
                                 n |-> 0 ],
                               g.scte35_sections, cr_sys, fails)
             g1 == [ st.g EXCEPT !.scte35_sections = st.kept ]
         IN  IF g.scte35_sections = <<>>
             THEN upipe_ts_scte35g_send(g1, g1.scte35_null_section[1], cr_sys,
                                        (st.n + 1) \in fails)
             ELSE g1

\* upipe_ts_scte35g_prepare
upipe_ts_scte35g_prepare(g, cr_sys, fails) ==
    IF \/ g.flow_def = None
       \/ g.scte35_null_section = None
       \/ g.scte35_interval = U64(0)
       \/ Gt64(Add64(g.scte35_cr_sys, g.scte35_interval), cr_sys)
    THEN g
    ELSE LET st == PrepareLoop([ g |-> g, kept |-> <<>>, handled |-> FALSE,
                                 n |-> 0 ],
                               g.scte35_sections, cr_sys, fails)
             g1 == [ st.g EXCEPT !.scte35_sections = st.kept ]
         IN  IF ~st.handled
             THEN upipe_ts_scte35g_send(g1, g1.scte35_null_section[1], cr_sys,
                                        (st.n + 1) \in fails)
             ELSE g1

\* uref_flow_match_def: the flow definition string, kept as its sequence of
\* dot-terminated words, starts with the words of the expected prefix
MatchDef(def, prefix) ==
    /\ Len(def) >= Len(prefix)
    /\ SubSeq(def, 1, Len(prefix)) = prefix

\* a variant of upipe_ts_scte35g_build_flow_def that counts the whole
\* payload of a TS packet
build_flow_def_full_payload(g, fail) ==
    IF g.scte35_interval = U64(0) THEN g
    ELSE LET flow_def ==
                 [ def |-> << "block", "mpegtspsi", "mpegtsscte35" >>,
                   psi_section_interval |-> g.scte35_interval,
                   octetrate |-> DivU64(Mul64(U64(UCLOCK_FREQ),
                                              TS_SIZE - TS_HEADER_SIZE),
                                        g.scte35_interval),
                   tb_rate |-> TB_RATE_PSI ]
         IN  [ Drop(Hold(g, 1), Refs(g.output_flow_def))
                 EXCEPT !.output_flow_def = Some(flow_def),
                        !.stored = Append(@, flow_def) ]

\* upipe_ts_scte35g_build_flow_def; allocation 1 is the flow definition or
\* one of its attributes, and what was allocated is freed.  Storing the flow
\* definition frees the one stored before.
upipe_ts_scte35g_build_flow_def(g, fail) ==
    IF g.scte35_interval = U64(0) THEN g
    ELSE IF fail = 1 THEN [ g EXCEPT !.fatal = @ + 1 ]
    ELSE LET flow_def ==
                 [ def |-> << "block", "mpegtspsi", "mpegtsscte35" >>,
                   psi_section_interval |-> g.scte35_interval,
                   octetrate |-> DivU64(Mul64(U64(UCLOCK_FREQ),
                                              TS_SIZE - TS_HEADER_SIZE - 1),
                                        g.scte35_interval),
                   tb_rate |-> TB_RATE_PSI ]
         IN  [ Drop(Hold(g, 1), Refs(g.output_flow_def))
                 EXCEPT !.output_flow_def = Some(flow_def),
                        !.stored = Append(@, flow_def) ]

\* a variant of upipe_ts_scte35g_set_flow_def that stores the flow
\* definition before it tests it
set_flow_def_unchecked(g, flow_def, faildup, fail1, fail2) ==
    IF flow_def = None THEN [ g |-> g, ret |-> "UBASE_ERR_INVALID" ]
    ELSE LET g1 == [ Drop(Hold(g, 1), Refs(g.flow_def))
                       EXCEPT !.flow_def = flow_def ]
         IN  IF ~MatchDef(flow_def[1], << "void", "scte35" >>)
             THEN [ g |-> g1, ret |-> "UBASE_ERR_INVALID" ]
             ELSE [ g |-> IF g.flow_def = None
                          THEN upipe_ts_scte35g_build_flow_def(
                                   upipe_ts_scte35g_build_null(g1, fail1),
                                   fail2)
                          ELSE g1,
                    ret |-> "UBASE_ERR_NONE" ]

\* upipe_ts_scte35g_set_flow_def.  flow_def is None (a NULL pointer) or
\* Some(def); faildup: uref_dup fails; fail1, fail2: the allocation of
\* build_null, of build_flow_def.  The result is [g, ret].
upipe_ts_scte35g_set_flow_def(g, flow_def, faildup, fail1, fail2) ==
    IF flow_def = None THEN [ g |-> g, ret |-> "UBASE_ERR_INVALID" ]
    ELSE IF ~MatchDef(flow_def[1], << "void", "scte35" >>)
         THEN [ g |-> g, ret |-> "UBASE_ERR_INVALID" ]
    ELSE IF faildup
         THEN [ g |-> [ g EXCEPT !.fatal = @ + 1 ], ret |-> "UBASE_ERR_ALLOC" ]
    ELSE LET scte35_change == g.flow_def = None
             g1 == [ Drop(Hold(g, 1), Refs(g.flow_def))
                       EXCEPT !.flow_def = flow_def ]
         IN  [ g |-> IF scte35_change
                     THEN upipe_ts_scte35g_build_flow_def(
                              upipe_ts_scte35g_build_null(g1, fail1), fail2)
                     ELSE g1,
               ret |-> "UBASE_ERR_NONE" ]

\* upipe_ts_scte35g_get_scte35_interval: the value written to *interval_p
upipe_ts_scte35g_get_scte35_interval(g) == g.scte35_interval

\* upipe_ts_scte35g_set_scte35_interval
upipe_ts_scte35g_set_scte35_interval(g, interval, fail) ==
    upipe_ts_scte35g_build_flow_def([ g EXCEPT !.scte35_interval = interval ],
                                    fail)

\* the second while loop of upipe_ts_scte35g_free: scte35_message_del on
\* every message of the list
RECURSIVE DelMessages(_, _)
DelMessages(g, msgs) ==
    IF msgs = <<>> THEN g
    ELSE DelMessages(scte35_message_del(g, Head(msgs)), Tail(msgs))

\* upipe_ts_scte35g_free; upipe_ts_scte35g_clean_output frees the output
\* flow definition
upipe_ts_scte35g_free(g) ==
    LET g1 == Drop(g, Len(g.urefs))
        g2 == DelMessages(g1, g.scte35_sections)
        g3 == Drop(g2, Refs(g.flow_def) + Refs(g.scte35_null_section)
                         + Refs(g.output_flow_def))
    IN  [ g3 EXCEPT !.urefs = <<>>, !.scte35_sections = <<>>,
                    !.flow_def = None, !.scte35_null_section = None,
                    !.output_flow_def = None ]

(***************************************************************************)
(* State                                                                   *)
(***************************************************************************)
VARIABLES
    flow_def,             \* input flow definition: None or Some(def)
    scte35_interval,      \* SCTE-35 interval
    scte35_cr_sys,        \* SCTE-35 last cr_sys
    scte35_null_section,  \* None or Some(section)
    urefs,                \* buffered input urefs
    scte35_sections,      \* list of SCTE-35 messages
    output_flow_def,      \* output flow definition: None or Some(record)
    live,                 \* the number of objects the pipe holds
    crashed,              \* the process has stopped on an invalid access
    bad,                  \* memory that is not the pipe's was freed or
                          \* written
    output,               \* the records the last call handed to the output
    stored,               \* the output flow definitions the last call stored
    fatal,                \* the number of fatal events the last call threw
    op,                   \* the last call, its argument, the allocations
                          \* that failed in it and what it returned
    pre,                  \* the private context before the last call
    offset,               \* struct upipe_skip: skip offset
    skip_call             \* the last call on the skip pipe: the command,
                          \* what the caller passed, the caller's variable
                          \* after the call, what the call returned, the
                          \* offset before the call and the value given to
                          \* the most recent UPIPE_SKIP_SET_OFFSET

ctx == << flow_def, scte35_interval, scte35_cr_sys, scte35_null_section,
          urefs, scte35_sections, output_flow_def, live >>
vars == << flow_def, scte35_interval, scte35_cr_sys, scte35_null_section,
           urefs, scte35_sections, output_flow_def, live, crashed, bad,
           output, stored, fatal, op, pre, offset, skip_call >>

\* the variables of the SCTE-35 generator
generator == << flow_def, scte35_interval, scte35_cr_sys,
                scte35_null_section, urefs, scte35_sections,
                output_flow_def, live, crashed, bad, output, stored, fatal,
                op, pre >>

\* the private context as a record, as a handler receives it
Ctx ==
    [ flow_def |-> flow_def, scte35_interval |-> scte35_interval,
      scte35_cr_sys |-> scte35_cr_sys,
      scte35_null_section |-> scte35_null_section,
      urefs |-> urefs, scte35_sections |-> scte35_sections,
      output_flow_def |-> output_flow_def, live |-> live,
      out |-> <<>>, stored |-> <<>>, fatal |-> 0 ]

\* the state after a call that was made as call and left the context g
Return(g, call) ==
    /\ flow_def' = g.flow_def
    /\ scte35_interval' = g.scte35_interval
    /\ scte35_cr_sys' = g.scte35_cr_sys
    /\ scte35_null_section' = g.scte35_null_section
    /\ urefs' = g.urefs
    /\ scte35_sections' = g.scte35_sections
    /\ output_flow_def' = g.output_flow_def
    /\ live' = g.live
    /\ output' = g.out
    /\ stored' = g.stored
    /\ fatal' = g.fatal
    /\ op' = call
    /\ pre' = Ctx
    /\ UNCHANGED << offset, skip_call >>

\* bounds of the model: the lengths the two lists may reach
MaxUrefs == 2
MaxSections == 2

Within(g, maxurefs, maxsections) ==
    /\ Len(g.urefs) <= maxurefs
    /\ Len(g.scte35_sections) <= maxsections

Bounded(g) == Within(g, MaxUrefs, MaxSections)

\* upipe_ts_scte35g_alloc
Init ==
    /\ flow_def = None
    /\ scte35_interval = U64(0)
    /\ scte35_cr_sys = U64(0)
    /\ scte35_null_section = None
    /\ urefs = <<>>
    /\ scte35_sections = <<>>
    /\ output_flow_def = None
    /\ live = 0
    /\ crashed = FALSE
    /\ bad = FALSE
    /\ output = <<>>
    /\ stored = <<>>
    /\ fatal = 0
    /\ op = [ name |-> "alloc", arg |-> None, fail |-> None,
              ret |-> "UBASE_ERR_NONE" ]
    /\ pre = Ctx
    /\ offset = 0
    /\ skip_call = [ command |-> "upipe_skip_alloc", arg |-> None,
                     out |-> None, ret |-> TRUE, before |-> 0, set |-> 0 ]

(***************************************************************************)
(* Actions: one per entry point                                            *)
(***************************************************************************)

\* the pipe can be called: the process runs and the pipe is not freed
Alive == ~crashed /\ op.name # "free"

\* upipe_ts_scte35g_input with a NULL uref or a uref without attributes.
\* The loop walks the list of buffered urefs and handles each element as a
\* struct scte35_message: with a non-empty list it frees and overwrites a
\* pointer inside a struct uref, which is undefined behaviour; the outcomes
\* kept are "nothing visible happens", "the process stops" and "a pointer
\* that is no block of the pipe is freed".
InputEmpty(uref) ==
    /\ Alive
    /\ uref.isnull \/ ~uref.udict
    /\ \E outcome \in (IF urefs = <<>> THEN { "none" }
                       ELSE { "none", "stop", "free" }) :
          /\ crashed' = (outcome = "stop")
          /\ bad' = (bad \/ outcome = "free")
    /\ Return(Drop(Hold(Ctx, Refs(IF uref.isnull THEN None ELSE Some(uref))),
                   Refs(IF uref.isnull THEN None ELSE Some(uref))),
              [ name |-> "input", arg |-> uref, fail |-> None,
                ret |-> "UBASE_ERR_NONE" ])

\* a form of one of the messages msgs needed more bytes than the block
\* allocated for it has
Overrun(msgs) ==
    \E i \in 1..Len(msgs) :
        \E form \in { msgs[i].ubuf, msgs[i].immediate } \ { None } :
            psi_get_length(form[1]) + PSI_HEADER_SIZE
                > PSI_MAX_SIZE + PSI_HEADER_SIZE

\* upipe_ts_scte35g_input with a uref that has attributes, while the lists
\* stay within maxurefs and maxsections.  upipe_ts_scte35g_time_signal
\* writes the descriptors one behind the other without looking at the size
\* of the block: when they do not fit, it writes behind the end of the
\* block, which is undefined behaviour; the outcomes kept are "nothing
\* visible happens" and "the process stops".
InputWithin(uref, fail1, fail2, maxurefs, maxsections) ==
    /\ Alive
    /\ ~uref.isnull /\ uref.udict
    /\ LET Written(new) ==          \* new: the messages the call built
               \E outcome \in (IF Overrun(new) THEN { "none", "stop" }
                                ELSE { "none" }) :
                   /\ crashed' = (outcome = "stop")
                   /\ bad' = (bad \/ Overrun(new))
           Returned(g) ==           \* g: the context the call left
               /\ Within(g, maxurefs, maxsections)
               /\ Return(g, [ name |-> "input", arg |-> uref,
                              fail |-> << fail1, fail2 >>,
                              ret |-> "UBASE_ERR_NONE" ])
               /\ Written(SubSeq(g.scte35_sections, Len(scte35_sections) + 1,
                                 Len(g.scte35_sections)))
       IN  Returned(upipe_ts_scte35g_input(Ctx, uref, fail1, fail2))

Input(uref, fail1, fail2) ==
    InputWithin(uref, fail1, fail2, MaxUrefs, MaxSections)

\* UPIPE_SET_FLOW_DEF
SetFlowDef(fd, faildup, fail1, fail2) ==
    /\ Alive
    /\ LET r == upipe_ts_scte35g_set_flow_def(Ctx, fd, faildup, fail1, fail2)
       IN  Return(r.g, [ name |-> "set_flow_def", arg |-> fd,
                         fail |-> << faildup, fail1, fail2 >>,
                         ret |-> r.ret ])
    /\ UNCHANGED << crashed, bad >>

\* UPIPE_TS_MUX_GET_SCTE35_INTERVAL: arg is the value written to *interval_p
GetInterval ==
    /\ Alive
    /\ Return(Ctx, [ name |-> "get_scte35_interval",
                     arg |-> upipe_ts_scte35g_get_scte35_interval(Ctx),
                     fail |-> None,
                     ret |-> "UBASE_ERR_NONE" ])
    /\ UNCHANGED << crashed, bad >>

\* UPIPE_TS_MUX_SET_SCTE35_INTERVAL
SetInterval(interval, fail) ==
    /\ Alive
    /\ Return(upipe_ts_scte35g_set_scte35_interval(Ctx, interval, fail),
              [ name |-> "set_scte35_interval", arg |-> interval,
                fail |-> fail, ret |-> "UBASE_ERR_NONE" ])
    /\ UNCHANGED << crashed, bad >>

\* UPIPE_TS_MUX_PREPARE
Prepare(cr_sys, fails) ==
    /\ Alive
    /\ Return(upipe_ts_scte35g_prepare(Ctx, cr_sys, fails),
              [ name |-> "prepare", arg |-> cr_sys, fail |-> fails,
                ret |-> "UBASE_ERR_NONE" ])
    /\ UNCHANGED << crashed, bad >>

\* the release of the last reference: upipe_ts_scte35g_free
Free ==
    /\ Alive
    /\ Return(upipe_ts_scte35g_free(Ctx),
              [ name |-> "free", arg |-> None, fail |-> None,
                ret |-> "UBASE_ERR_NONE" ])
    /\ UNCHANGED << crashed, bad >>

(***************************************************************************)
(* Inputs of the scheduler specification: complete events whose deadline   *)
(* is 0 (no pts_sys) or Deadline, ticks around the interval and the        *)
(* deadline, and an interval that makes the sum in prepare's test wrap.    *)
(***************************************************************************)
Interval == U64(3)
Deadline == U64(6)
PtsProg == U64(9000000)

FlowDefs ==
    { None, Some(<< "void", "scte35" >>), Some(<< "block", "mpegtspsi" >>) }

Intervals == { U64(0), Interval, UINT64_MAX }

Ticks == { U64(2), U64(3), U64(6), U64(7), U64(10) }

Events ==
    { Uref(Some(ct), TRUE, TRUE, pp, None, ps, Some(1), None) :
        ct \in { SCTE35_INSERT_COMMAND, SCTE35_TIME_SIGNAL_COMMAND },
        pp \in { None, Some(PtsProg) },
        ps \in { None, Some(Deadline) } }

Urefs == Events \cup { NullUref, NoDictUref }

Next ==
    \/ \E uref \in Urefs : InputEmpty(uref)
    \/ \E uref \in Urefs : Input(uref, 0, 0)
    \/ \E fd \in FlowDefs : SetFlowDef(fd, FALSE, 0, 0)
    \/ \E interval \in Intervals : SetInterval(interval, 0)
    \/ \E cr_sys \in Ticks : Prepare(cr_sys, {})

Spec == Init /\ [][Next]_vars

(***************************************************************************)
(* The reassembly specification: pushes of fragments only.  The fragments  *)
(* are complete events, opening fragments, continuations carrying a splice *)
(* descriptor, a terminator, an event of a command type the generator does *)
(* not handle, a splice_null, a record without command type, and an event  *)
(* whose pts_prog has the value UINT64_MAX.                                *)
(***************************************************************************)
\* a command type that reaches the default case of upipe_ts_scte35g_flush
UnsupportedCommand == 4

Fragments ==
    { Uref(Some(SCTE35_INSERT_COMMAND), TRUE, TRUE, Some(PtsProg),
           Some(U64(2700000)), Some(Deadline), Some(1), None),
      Uref(Some(SCTE35_INSERT_COMMAND), TRUE, TRUE, Some(UINT64_MAX),
           None, None, Some(1), None),
      Uref(Some(SCTE35_INSERT_COMMAND), TRUE, FALSE, None,
           None, Some(Deadline), Some(2), None),
      Uref(Some(SCTE35_TIME_SIGNAL_COMMAND), TRUE, FALSE, Some(PtsProg),
           None, None, None, None),
      Uref(Some(SCTE35_TIME_SIGNAL_COMMAND), TRUE, TRUE, None,
           None, Some(Deadline), None, None),
      Uref(Some(SCTE35_TIME_SIGNAL_COMMAND), FALSE, FALSE, None,
           None, None, None, Some(<< 2, 1, 7 >>)),
      Uref(Some(SCTE35_TIME_SIGNAL_COMMAND), FALSE, TRUE, None,
           None, None, None, Some(<< 2, 0 >>)),
      Uref(Some(UnsupportedCommand), TRUE, TRUE, None,
           None, None, None, None),
      Uref(Some(SCTE35_NULL_COMMAND), TRUE, TRUE, None,
           None, None, None, None),
      Uref(None, TRUE, TRUE, None, None, None, None, None) }

NextAsm ==
    \/ \E uref \in Fragments : Input(uref, 0, 0)
    \/ SetFlowDef(Some(<< "void", "scte35" >>), FALSE, 0, 0)

SpecAsm == Init /\ [][NextAsm]_vars

(***************************************************************************)
(* The specification of the scheduled INSERT scenario: interval 1_350_000  *)
(* (50 ms at 27 MHz), one INSERT event with pts_prog 9_000_000, duration   *)
(* 2_700_000 and pts_sys 5_000_000, ticks before and after 5_000_000 and   *)
(* after 9_000_000, in any order.                                          *)
(***************************************************************************)
ScenarioInterval == U64(1350000)

ScenarioEvent ==
    Uref(Some(SCTE35_INSERT_COMMAND), TRUE, TRUE, Some(U64(9000000)),
         Some(U64(2700000)), Some(U64(5000000)), Some(1), None)

ScenarioTicks ==
    { U64(1350000), U64(4050000), U64(5000001), U64(9000001), U64(10350001) }

NextScenario ==
    \/ SetFlowDef(Some(<< "void", "scte35" >>), FALSE, 0, 0)
    \/ SetInterval(ScenarioInterval, 0)
    \/ Input(ScenarioEvent, 0, 0)
    \/ \E cr_sys \in ScenarioTicks : Prepare(cr_sys, {})

SpecScenario == Init /\ [][NextScenario]_vars

(***************************************************************************)
(* The control specification: no event is ever pushed.  The intervals are  *)
(* 0, two small values, 50 ms, the two values around the numerator of the  *)
(* octet rate (4_941_000_000 and 4_941_000_001) and UINT64_MAX; the ticks  *)
(* are the multiples of the intervals 3 and 1_350_000 and one tick before  *)
(* the first multiple.                                                     *)
(***************************************************************************)
ControlIntervals ==
    { U64(0), U64(3), U64(7), U64(1350000),
      << 0, 1, 9857, 44352 >>, << 0, 1, 9857, 44353 >>, UINT64_MAX }

ControlTicks ==
    { U64(2), U64(3), U64(6), U64(9),
      U64(1350000), U64(2700000), U64(4050000) }

NextControl ==
    \/ \E uref \in { NullUref, NoDictUref } : InputEmpty(uref)
    \/ \E fd \in FlowDefs : SetFlowDef(fd, FALSE, 0, 0)
    \/ \E interval \in ControlIntervals : SetInterval(interval, 0)
    \/ GetInterval
    \/ \E cr_sys \in ControlTicks : Prepare(cr_sys, {})

SpecControl == Init /\ [][NextControl]_vars

(***************************************************************************)
(* The interval specification: the control specification and the pushes of *)
(* two complete events, one with a deadline and one without, so that a     *)
(* tick can find a message in the queue while the interval is 0.           *)
(***************************************************************************)
IntervalTicks == { U64(3), U64(6), U64(1350000) }

IntervalEvents ==
    { ScenarioEvent,
      Uref(Some(SCTE35_TIME_SIGNAL_COMMAND), TRUE, TRUE, None, None, None,
           None, None) }

NextInterval ==
    \/ \E fd \in FlowDefs : SetFlowDef(fd, FALSE, 0, 0)
    \/ \E interval \in ControlIntervals : SetInterval(interval, 0)
    \/ GetInterval
    \/ \E uref \in IntervalEvents : Input(uref, 0, 0)
    \/ \E cr_sys \in IntervalTicks : Prepare(cr_sys, {})

SpecInterval == Init /\ [][NextInterval]_vars

(***************************************************************************)
(* The allocation specification: every call of the pipe, with the          *)
(* allocations that fail chosen by the environment, and the release of the *)
(* pipe.  The events are a complete INSERT with pts_prog, a complete       *)
(* TIME_SIGNAL without pts_prog and the opening fragment of a TIME_SIGNAL  *)
(* with pts_prog; allocation n of a synthesis is the Message (1), the      *)
(* first form (2), the second form (3); send n of a tick is its n-th call  *)
(* of upipe_ts_scte35g_send.                                               *)
(***************************************************************************)
AllocEvents ==
    { Uref(Some(SCTE35_INSERT_COMMAND), TRUE, TRUE, Some(PtsProg),
           None, Some(Deadline), Some(1), None),
      Uref(Some(SCTE35_TIME_SIGNAL_COMMAND), TRUE, TRUE, None,
           None, None, None, None),
      Uref(Some(SCTE35_TIME_SIGNAL_COMMAND), TRUE, FALSE, Some(PtsProg),
           None, Some(Deadline), None, None) }

AllocTicks == { Interval, U64(7) }

\* the failing allocation of the forced flush and of the final release of a
\* push (0: none): at most one of the two syntheses fails
FailingAllocations ==
    { << n, 0 >> : n \in 0..3 } \cup { << 0, n >> : n \in 0..3 }

NextAlloc ==
    \/ \E uref \in { NullUref, NoDictUref } : InputEmpty(uref)
    \/ \E uref \in AllocEvents : \E fail \in FailingAllocations :
          Input(uref, fail[1], fail[2])
    \/ \E faildup \in BOOLEAN : \E fail1, fail2 \in 0..1 :
          SetFlowDef(Some(<< "void", "scte35" >>), faildup, fail1, fail2)
    \/ \E interval \in { U64(0), Interval } : \E fail \in 0..1 :
          SetInterval(interval, fail)
    \/ \E cr_sys \in AllocTicks : \E fails \in SUBSET { 1, 2 } :
          Prepare(cr_sys, fails)
    \/ Free

SpecAlloc == Init /\ [][NextAlloc]_vars

(***************************************************************************)
(* The conversion specification: pushes of complete events whose pts_prog  *)
(* and duration are 0, the values around one unit of 90 kHz (299, 300),    *)
(* the values around the wrap of 33 bits (300 * 2^33 - 1, 300 * 2^33,      *)
(* 300 * (2^33 + 5) + 7), 2^63, UINT64_MAX - 1 and UINT64_MAX, and of a    *)
(* cancellation.                                                           *)
(***************************************************************************)
ConvTimes ==
    { U64(0), U64(299), U64(300), PtsProg,
      << 0, 599, Limb - 1, Limb - 1 >>, << 0, 600, 0, 0 >>,
      << 0, 600, 0, 1507 >>, << 2 ^ 15, 0, 0, 0 >>,
      << Limb - 1, Limb - 1, Limb - 1, Limb - 2 >>, UINT64_MAX }

ConvDurations ==
    { U64(2700000), << 0, 600, 0, 299 >>, UINT64_MAX }

ConvEvents ==
    { Uref(Some(SCTE35_INSERT_COMMAND), TRUE, TRUE, Some(pp), None, None,
           Some(1), None) : pp \in ConvTimes }
    \cup
    { Uref(Some(SCTE35_INSERT_COMMAND), TRUE, TRUE, Some(PtsProg), Some(d),
           None, Some(1), None) : d \in ConvDurations }
    \cup
    { [ Uref(Some(SCTE35_INSERT_COMMAND), TRUE, TRUE, Some(PtsProg),
             Some(U64(2700000)), None, Some(1), None)
          EXCEPT !.cancel = TRUE ] }
    \cup
    { Uref(Some(SCTE35_TIME_SIGNAL_COMMAND), TRUE, TRUE, Some(pp), None, None,
           None, None) : pp \in ConvTimes }

NextConv == \E uref \in ConvEvents : Input(uref, 0, 0)

SpecConv == Init /\ [][NextConv]_vars

(***************************************************************************)
(* The layout specification: the null section, splice_insert events for    *)
(* every combination of cancel, pts_prog and duration, and time_signal     *)
(* events reassembled from an opening fragment with or without pts_prog,   *)
(* continuations that carry a descriptor of 257 bytes, and a terminator    *)
(* without descriptor or with a descriptor of 12 bytes.                    *)
(***************************************************************************)
\* bounds of the layout specification: the fragments of one event and the
\* messages in the queue
MaxFragments == 5
MaxLayoutSections == 1

\* a descriptor of n bytes of payload: tag, descriptor_length, payload
Descriptor(n) == << 2, n >> \o [ i \in 1..n |-> 0 ]

LayoutEvents ==
    { [ Uref(Some(SCTE35_INSERT_COMMAND), TRUE, TRUE, pp, d, None,
             Some(1), None) EXCEPT !.cancel = c ] :
        pp \in { None, Some(PtsProg) }, d \in { None, Some(U64(2700000)) },
        c \in BOOLEAN }
    \cup
    { Uref(Some(SCTE35_TIME_SIGNAL_COMMAND), TRUE, FALSE, pp, None, None,
           None, None) : pp \in { None, Some(PtsProg) } }
    \cup
    { Uref(Some(SCTE35_TIME_SIGNAL_COMMAND), FALSE, FALSE, None, None, None,
           None, Some(Descriptor(255))) }
    \cup
    { Uref(Some(SCTE35_TIME_SIGNAL_COMMAND), FALSE, TRUE, None, None, None,
           None, d) : d \in { None, Some(Descriptor(10)) } }

NextLayout ==
    \/ SetFlowDef(Some(<< "void", "scte35" >>), FALSE, 0, 0)
    \/ \E uref \in LayoutEvents :
          InputWithin(uref, 0, 0, MaxFragments, MaxLayoutSections)

SpecLayout == Init /\ [][NextLayout]_vars

(***************************************************************************)
(* The release specification: pushes of fragments whose command types      *)
(* differ inside one event, with the allocations that fail chosen by the   *)
(* environment.  The fragments are the opening fragments of an INSERT, a   *)
(* TIME_SIGNAL and a splice_null, a continuation of type INSERT that       *)
(* carries a descriptor, and terminators of each of the three types and of *)
(* a type the generator does not handle.  The flow definition is set with  *)
(* or without a failure of the allocation of the null section.             *)
(***************************************************************************)
\* bounds of the release specification: the fragments of one event and the
\* messages in the queue
MaxReleaseUrefs == 2
MaxReleaseSections == 1

\* the failing allocation of the forced flush and of the final release
ReleaseFailures == { << 0, 0 >>, << 1, 0 >>, << 0, 2 >>, << 0, 3 >> }

ReleaseFragments ==
    { Uref(Some(ct), TRUE, FALSE, pp, None, Some(Deadline), Some(1), None) :
        ct \in { SCTE35_INSERT_COMMAND, SCTE35_TIME_SIGNAL_COMMAND },
        pp \in { Some(PtsProg) } }
    \cup
    { Uref(Some(SCTE35_NULL_COMMAND), TRUE, FALSE, None, None, None, None,
           None),
      Uref(Some(SCTE35_INSERT_COMMAND), FALSE, FALSE, None, None, None,
           Some(2), Some(<< 2, 1, 7 >>)),
      Uref(Some(SCTE35_TIME_SIGNAL_COMMAND), FALSE, TRUE, None, None, None,
           None, Some(<< 2, 0 >>)),
      Uref(Some(SCTE35_INSERT_COMMAND), FALSE, TRUE, None, None, None,
           Some(3), None),
      Uref(Some(SCTE35_NULL_COMMAND), FALSE, TRUE, None, None, None, None,
           None),
      Uref(Some(UnsupportedCommand), FALSE, TRUE, None, None, None, None,
           None) }

NextRelease ==
    \/ \E uref \in ReleaseFragments : \E fail \in ReleaseFailures :
          InputWithin(uref, fail[1], fail[2],
                      MaxReleaseUrefs, MaxReleaseSections)
    \/ \E fail1 \in 0..1 :
          SetFlowDef(Some(<< "void", "scte35" >>), FALSE, fail1, 0)

SpecRelease == Init /\ [][NextRelease]_vars

(***************************************************************************)
(* The splice_null specification: pushes of a complete splice_insert with  *)
(* both forms, of a complete splice_null, of an opening splice_null and of *)
(* a terminator, together with the commands and the ticks of the           *)
(* scheduler, so that a splice_null is released while Messages are pending *)
(* and ticks follow the release.                                           *)
(***************************************************************************)
NullEvents ==
    { Uref(Some(SCTE35_INSERT_COMMAND), TRUE, TRUE, Some(PtsProg), None,
           Some(Deadline), Some(1), None),
      Uref(Some(SCTE35_NULL_COMMAND), TRUE, TRUE, None, None, None, None,
           None),
      Uref(Some(SCTE35_NULL_COMMAND), TRUE, FALSE, None, None, None, None,
           None),
      Uref(Some(SCTE35_INSERT_COMMAND), FALSE, TRUE, None, None, None,
           Some(2), None) }

NullTicks == { Interval, U64(7) }

NextNull ==
    \/ \E uref \in NullEvents : Input(uref, 0, 0)
    \/ SetFlowDef(Some(<< "void", "scte35" >>), FALSE, 0, 0)
    \/ SetInterval(Interval, 0)
    \/ \E cr_sys \in NullTicks : Prepare(cr_sys, {})

SpecNull == Init /\ [][NextNull]_vars

(***************************************************************************)
(* The skip pipe.  Its private structure holds one field of its own, the   *)
(* skip offset, which upipe_skip_alloc sets to 0.  The commands on the     *)
(* flow definition and on the output are those of the helper macros and    *)
(* do not touch the offset; they are left out.                             *)
(***************************************************************************)
\* upipe_skip_control: the offset after the command, the caller's variable
\* after it (None for a command without out-parameter or a null pointer)
\* and the value returned.  arg is the size_t of UPIPE_SKIP_SET_OFFSET, or
\* the out-parameter of UPIPE_SKIP_GET_OFFSET: None for a null pointer,
\* Some(v) for a pointer to a variable that holds v.
upipe_skip_control(off, command, arg) ==
    IF command = "UPIPE_SKIP_SET_OFFSET"
    THEN [ offset |-> arg, out |-> None, ret |-> TRUE ]
    ELSE IF command = "UPIPE_SKIP_GET_OFFSET"
    THEN IF arg = None
         THEN [ offset |-> off, out |-> None, ret |-> FALSE ]
         ELSE [ offset |-> arg[1], out |-> arg, ret |-> TRUE ]
    ELSE [ offset |-> off, out |-> None, ret |-> FALSE ]

\* upipe_skip_input: the arguments of the call of uref_block_resize on the
\* block pushed, which is then handed to the output
upipe_skip_input(off) == [ skip |-> off, new_size |-> -1 ]

\* the offsets of the skip specification, and the values the caller's
\* variable holds before UPIPE_SKIP_GET_OFFSET
SkipOffsets == { 0, 1, 4, 188 }

\* a command on the skip pipe
SkipControl(command, arg) ==
    /\ LET r == upipe_skip_control(offset, command, arg)
       IN  /\ offset' = r.offset
           /\ skip_call' =
                  [ command |-> command, arg |-> arg, out |-> r.out,
                    ret |-> r.ret, before |-> offset,
                    set |-> IF command = "UPIPE_SKIP_SET_OFFSET" THEN arg
                            ELSE skip_call.set ]
    /\ UNCHANGED generator

\* UPIPE_SKIP_SET_OFFSET
SkipSetOffset(o) == SkipControl("UPIPE_SKIP_SET_OFFSET", o)

\* UPIPE_SKIP_GET_OFFSET
SkipGetOffset(offset_p) == SkipControl("UPIPE_SKIP_GET_OFFSET", offset_p)

\* a command the skip pipe does not handle
SkipOther == SkipControl("UPIPE_GET_URI", None)

\* a block pushed into the skip pipe
SkipInput ==
    /\ skip_call' = [ command |-> "upipe_skip_input", arg |-> None,
                      out |-> Some(upipe_skip_input(offset)), ret |-> TRUE,
                      before |-> offset, set |-> skip_call.set ]
    /\ UNCHANGED offset
    /\ UNCHANGED generator

NextSkip ==
    \/ \E o \in SkipOffsets : SkipSetOffset(o)
    \/ \E offset_p \in { None } \cup { Some(v) : v \in SkipOffsets } :
          SkipGetOffset(offset_p)
    \/ SkipOther
    \/ SkipInput

SpecSkip == Init /\ [][NextSkip]_vars

(***************************************************************************)
(* Vocabulary of the properties                                            *)
(***************************************************************************)
IsEmptyInput(uref) == uref.isnull \/ ~uref.udict

\* the last call was a tick / a push
IsTick == op.name = "prepare"
IsPush == op.name = "input"

\* the sum last_emit_cr_sys + interval as the program computes it, on the
\* context before the last call
EmitDue == Add64(pre.scte35_cr_sys, pre.scte35_interval)

\* flow_def set, null section built, interval > 0 before the last call
Configured ==
    /\ pre.flow_def # None
    /\ pre.scte35_null_section # None
    /\ pre.scte35_interval # U64(0)

\* the last call was a qualifying tick
QualifyingTick == IsTick /\ Configured /\ ~Lt64(op.arg, EmitDue)

\* the byte blocks handed to the output by the last call
Emitted == [ i \in 1..Len(output) |-> output[i].ubuf ]

\* the form of a message a tick at cr_sys sends: the immediate form once
\* the deadline has passed, the scheduled form before
FormAt(msg, cr_sys) ==
    IF Lt64(msg.cr_sys, cr_sys) THEN msg.immediate ELSE msg.ubuf

\* the forms the messages of a list have at cr_sys, in list order
RECURSIVE FormsAt(_, _)
FormsAt(msgs, cr_sys) ==
    IF msgs = <<>> THEN <<>>
    ELSE FormAt(Head(msgs), cr_sys) \o FormsAt(Tail(msgs), cr_sys)

C3_EmptyPushClearsScheduled ==
    (IsPush /\ IsEmptyInput(op.arg)) =>
        \A i \in 1..Len(scte35_sections) : scte35_sections[i].ubuf = None

(***************************************************************************)
(* C5.  Statement: after a synthesis that appended a Message,              *)
(* last_emit_cr_sys is 0, and a tick issued while it is still 0 with       *)
(* flow_def set, the null section built and interval > 0 emits a section   *)
(* whatever its cr_sys.                                                    *)
(***************************************************************************)
C5_NextTickEmits ==
    /\ (IsPush /\ Len(scte35_sections) > Len(pre.scte35_sections)) =>
           scte35_cr_sys = U64(0)
    /\ ( /\ IsTick /\ Configured
         /\ pre.scte35_sections # <<>>
         /\ pre.scte35_cr_sys = U64(0) ) =>
           output # <<>>

\* s is a prefix of t
IsPrefix(s, t) == Len(s) <= Len(t) /\ SubSeq(t, 1, Len(s)) = s

\* the Messages of a list whose deadline has not passed at cr_sys, in list
\* order, each left with its scheduled form only
RECURSIVE Survivors(_, _)
Survivors(msgs, cr_sys) ==
    IF msgs = <<>> THEN <<>>
    ELSE IF Lt64(Head(msgs).cr_sys, cr_sys) THEN Survivors(Tail(msgs), cr_sys)
    ELSE << [ Head(msgs) EXCEPT !.immediate = None ] >>
             \o Survivors(Tail(msgs), cr_sys)

\* the last call pushed a complete INSERT or TIME_SIGNAL event
PushedCompleteEvent ==
    /\ IsPush /\ ~IsEmptyInput(op.arg)
    /\ op.arg.start /\ op.arg.end
    /\ op.arg.command_type \in { Some(SCTE35_INSERT_COMMAND),
                                 Some(SCTE35_TIME_SIGNAL_COMMAND) }

(***************************************************************************)
(* C10.  The pending queue keeps Messages in creation order: a push only   *)
(* appends behind the Messages already queued (also when a queued Message  *)
(* has the same event_id), a qualifying tick leaves the Messages whose     *)
(* deadline has not passed in their order, none skipped, and sends the     *)
(* sections of one tick in queue order; no other call touches the queue.   *)
(***************************************************************************)
C10_QueueOrder ==
    /\ IsPush => IsPrefix(pre.scte35_sections, scte35_sections)
    /\ (PushedCompleteEvent /\ pre.urefs = <<>>) =>
           Len(scte35_sections) = Len(pre.scte35_sections) + 1
    /\ QualifyingTick =>
           /\ scte35_sections = Survivors(pre.scte35_sections, op.arg)
           /\ FormsAt(pre.scte35_sections, op.arg) # <<>> =>
                  Emitted = FormsAt(pre.scte35_sections, op.arg)
    /\ (~IsPush /\ ~QualifyingTick) => scte35_sections = pre.scte35_sections

\* a tick over two Messages of the same event_id that removes the first,
\* keeps the second and sends a section of each
C10_Witness ==
    /\ QualifyingTick
    /\ Len(pre.scte35_sections) = 2
    /\ pre.scte35_sections[1].immediate # None
    /\ pre.scte35_sections[2].immediate # None
    /\ pre.scte35_sections[1].immediate[1].event_id
         = pre.scte35_sections[2].immediate[1].event_id
    /\ Len(scte35_sections) = 1
    /\ scte35_sections[1].cr_sys = pre.scte35_sections[2].cr_sys
    /\ Len(output) = 2

(***************************************************************************)
(* Vocabulary of the properties on reassembly                              *)
(***************************************************************************)
\* the last call pushed a record that has a command type
PushedFragment ==
    IsPush /\ ~IsEmptyInput(op.arg) /\ op.arg.command_type # None

IsSpliceEvent(uref) ==
    uref.command_type \in { Some(SCTE35_INSERT_COMMAND),
                            Some(SCTE35_TIME_SIGNAL_COMMAND) }

IsUnsupported(uref) ==
    uref.command_type \notin { Some(SCTE35_NULL_COMMAND),
                               Some(SCTE35_INSERT_COMMAND),
                               Some(SCTE35_TIME_SIGNAL_COMMAND) }

\* the Message of the event whose fragments are frags: the first fragment
\* gives the command, the times and the fields, the other fragments the
\* descriptors of a time_signal
ExpectedMessage(frags) ==
    LET first == Head(frags)
        form(pts) == IF first.command_type = Some(SCTE35_INSERT_COMMAND)
                     THEN InsertSection(first, pts)
                     ELSE TimeSignalSection(first, Tail(frags))
        pts_prog == Get(first.pts_prog, UINT64_MAX)
    IN  [ cr_sys |-> Get(first.pts_sys, U64(0)),
          ubuf |-> IF pts_prog # UINT64_MAX THEN Some(form(pts_prog))
                   ELSE None,
          immediate |-> Some(form(UINT64_MAX)) ]

\* the Messages the last call appended to the pending queue
Appended ==
    SubSeq(scte35_sections, Len(pre.scte35_sections) + 1,
           Len(scte35_sections))

\* the push met a non-empty accumulator with a start=true input
Forced == PushedFragment /\ op.arg.start /\ pre.urefs # <<>>

\* the push met an empty accumulator with a start=false, end=false input
Orphan == PushedFragment /\ ~op.arg.start /\ ~op.arg.end /\ pre.urefs = <<>>

(***************************************************************************)
(* C6 as stated.  A push whose input has end=false leaves the input as the *)
(* last fragment of the accumulator and synthesizes nothing from it,       *)
(* whatever the start flag and whether or not the accumulator was empty.   *)
(***************************************************************************)
C6_RetainedUntilTerminator ==
    (PushedFragment /\ ~op.arg.end) =>
        /\ urefs # <<>>
        /\ urefs[Len(urefs)] = op.arg
        /\ Len(Appended) <= IF Forced THEN 1 ELSE 0

(***************************************************************************)
(* C6, amended.  A push whose input has end=false retains the input as the *)
(* last fragment of the accumulator, nothing synthesized from it, when     *)
(* start=true or the accumulator was non-empty; a start=false, end=false   *)
(* INSERT or TIME_SIGNAL pushed on an empty accumulator is released at     *)
(* once: it is synthesized alone into one Message and the accumulator is   *)
(* empty afterwards.                                                       *)
(***************************************************************************)
C6_RetainedUnlessOrphan ==
    /\ (PushedFragment /\ ~op.arg.end /\ ~Orphan) =>
           /\ urefs # <<>>
           /\ urefs[Len(urefs)] = op.arg
           /\ Appended = IF Forced /\ IsSpliceEvent(Head(pre.urefs))
                         THEN << ExpectedMessage(pre.urefs) >>
                         ELSE <<>>
    /\ (Orphan /\ IsSpliceEvent(op.arg)) =>
           /\ urefs = <<>>
           /\ Appended = << ExpectedMessage(<< op.arg >>) >>

\* a continuation pushed on an empty accumulator has become a Message
C6_Witness ==
    /\ Orphan
    /\ op.arg.command_type = Some(SCTE35_TIME_SIGNAL_COMMAND)
    /\ op.arg.desc # None
    /\ urefs = <<>>
    /\ Len(Appended) = 1

(***************************************************************************)
(* C7.  When a start=true input is pushed on an accumulator whose first    *)
(* fragment is an INSERT or a TIME_SIGNAL, the accumulated fragments are   *)
(* synthesized first, into exactly one Message made of them alone; then    *)
(* the accumulator holds the new input alone if it has end=false, and a    *)
(* new INSERT or TIME_SIGNAL input with end=true is synthesized alone into *)
(* a second Message behind the first.                                      *)
(***************************************************************************)
C7_ForcedFlush ==
    (Forced /\ IsSpliceEvent(Head(pre.urefs))) =>
        LET old == ExpectedMessage(pre.urefs)
        IN  /\ Appended # <<>> /\ Head(Appended) = old
            /\ \A i \in 1..Len(urefs) : urefs[i] = op.arg
            /\ ~op.arg.end => (urefs = << op.arg >> /\ Appended = << old >>)
            /\ (op.arg.end /\ IsSpliceEvent(op.arg)) =>
                   /\ urefs = <<>>
                   /\ Appended = << old, ExpectedMessage(<< op.arg >>) >>
            /\ (op.arg.end /\ ~IsSpliceEvent(op.arg)) => Appended = << old >>

\* a complete event pushed on an opening fragment and its continuation:
\* two Messages, the first with the descriptor of the continuation
C7_Witness ==
    /\ Forced /\ IsSpliceEvent(Head(pre.urefs)) /\ Len(pre.urefs) = 2
    /\ op.arg.end /\ IsSpliceEvent(op.arg)
    /\ Len(Appended) = 2
    /\ Appended[1].immediate[1].descl # <<>>
    /\ Appended[2].immediate[1].command_type = SCTE35_INSERT_COMMAND

(***************************************************************************)
(* C8.  A release on an accumulator whose first fragment has a command     *)
(* type other than NULL, INSERT and TIME_SIGNAL appends no Message and     *)
(* leaves the accumulator empty, and a complete event of a supported type  *)
(* pushed at any later time is synthesized into its own Message.           *)
(***************************************************************************)
C8_UnsupportedIsDrained ==
    /\ (PushedFragment /\ op.arg.end /\ pre.urefs = <<>>
          /\ IsUnsupported(op.arg)) =>
           (urefs = <<>> /\ Appended = <<>>)
    /\ PushedCompleteEvent =>
           (/\ Appended # <<>>
            /\ Appended[Len(Appended)] = ExpectedMessage(<< op.arg >>))

\* the first fragment of the event the final release of the last push
\* works on
ReleasedHead ==
    IF op.arg.start \/ pre.urefs = <<>> THEN op.arg ELSE Head(pre.urefs)

\* the last push ended with a release that synthesized an event
FinalSynthesis ==
    /\ PushedFragment
    /\ op.arg.end \/ Orphan
    /\ IsSpliceEvent(ReleasedHead)
    /\ ~(Forced /\ IsUnsupported(Head(pre.urefs)))

\* the last push began with a forced flush that synthesized an event
ForcedSynthesis == Forced /\ IsSpliceEvent(Head(pre.urefs))

\* the first fragment of the event of the last Message appended
LastEventHead == IF FinalSynthesis THEN ReleasedHead ELSE Head(pre.urefs)

(***************************************************************************)
(* C9 as stated.  Each synthesis of an INSERT or TIME_SIGNAL event appends *)
(* exactly one Message, with the event's pts_sys as deadline, with the     *)
(* immediate form, and with the scheduled form if and only if the event    *)
(* carried pts_prog.                                                       *)
(***************************************************************************)
C9_ScheduledIffPtsProg ==
    PushedFragment =>
        /\ Len(Appended) = (IF ForcedSynthesis THEN 1 ELSE 0)
                             + (IF FinalSynthesis THEN 1 ELSE 0)
        /\ Appended # <<>> =>
               LET msg == Appended[Len(Appended)]
               IN  /\ LastEventHead.pts_sys # None =>
                          msg.cr_sys = LastEventHead.pts_sys[1]
                   /\ msg.immediate # None
                   /\ msg.ubuf # None <=> LastEventHead.pts_prog # None

(***************************************************************************)
(* C9, amended.  Each synthesis of an INSERT or TIME_SIGNAL event appends  *)
(* exactly one Message whose deadline is the pts_sys of the event's first  *)
(* fragment, 0 when it has none, whose immediate form is always present    *)
(* and whose scheduled form is present if and only if the first fragment   *)
(* carried a pts_prog other than UINT64_MAX.                               *)
(***************************************************************************)
C9_ScheduledIffValidPtsProg ==
    PushedFragment =>
        /\ Len(Appended) = (IF ForcedSynthesis THEN 1 ELSE 0)
                             + (IF FinalSynthesis THEN 1 ELSE 0)
        /\ \A i \in 1..Len(Appended) :
               Appended[i].immediate # None
        /\ Appended # <<>> =>
               LET msg == Appended[Len(Appended)]
               IN  /\ msg.cr_sys = Get(LastEventHead.pts_sys, U64(0))
                   /\ msg.ubuf # None <=>
                          /\ LastEventHead.pts_prog # None
                          /\ LastEventHead.pts_prog # Some(UINT64_MAX)

\* a TIME_SIGNAL with pts_prog and without pts_sys has been synthesized
\* from two fragments: both forms, deadline 0
C9_Witness ==
    /\ FinalSynthesis /\ ~op.arg.start /\ pre.urefs # <<>>
    /\ LastEventHead.command_type = Some(SCTE35_TIME_SIGNAL_COMMAND)
    /\ LastEventHead.pts_prog = Some(PtsProg)
    /\ Len(Appended) = 1
    /\ Appended[1].ubuf # None /\ Appended[1].immediate # None
    /\ Appended[1].cr_sys = U64(0)

(***************************************************************************)
(* Vocabulary of the scenario                                              *)
(***************************************************************************)
\* the scenario's event is alone in the queue, as the push left it
FreshlyQueued ==
    /\ Len(pre.scte35_sections) = 1
    /\ pre.scte35_sections[1].immediate # None
    /\ pre.scte35_sections[1].ubuf # None

\* the section is the scheduled / the immediate form of the scenario's event
IsScheduledForm(section) ==
    /\ section.command_type = SCTE35_INSERT_COMMAND
    /\ section.event_id = 1
    /\ ~section.splice_immediate
    /\ section.pts_time = Some(U64(30000))
    /\ section.break_duration
         = Some([ auto_return |-> TRUE, duration |-> U64(9000) ])

IsImmediateForm(section) ==
    /\ section.command_type = SCTE35_INSERT_COMMAND
    /\ section.event_id = 1
    /\ section.splice_immediate
    /\ section.pts_time = None
    /\ section.break_duration
         = Some([ auto_return |-> TRUE, duration |-> U64(9000) ])

(***************************************************************************)
(* C4 as stated.  With interval 1_350_000 and the flow definition set,     *)
(* after the push of the INSERT event (pts_prog 9_000_000, duration        *)
(* 2_700_000, auto_return, pts_sys 5_000_000) the tick at 5_000_001 emits  *)
(* the scheduled form of the event and the tick at 9_000_001 emits its     *)
(* immediate form.                                                         *)
(***************************************************************************)
C4_ScheduledAfterPtsSys ==
    /\ (QualifyingTick /\ FreshlyQueued /\ op.arg = U64(5000001)) =>
           (Len(output) = 1 /\ IsScheduledForm(Emitted[1]))
    /\ (QualifyingTick /\ FreshlyQueued /\ op.arg = U64(9000001)) =>
           (Len(output) = 1 /\ IsImmediateForm(Emitted[1]))

(***************************************************************************)
(* C4, amended.  In that scenario the deadline of the Message is pts_sys   *)
(* = 5_000_000: a qualifying tick up to 5_000_000 emits the scheduled form *)
(* (pts_time 30_000, break_duration 9_000, auto_return) and keeps the      *)
(* Message; the tick at 5_000_001, like every qualifying tick after        *)
(* 5_000_000 that finds the Message as the push left it, emits the         *)
(* immediate form and removes the Message; the tick at 9_000_001 and every *)
(* later qualifying tick find the queue empty and emit the null section.   *)
(***************************************************************************)
C4_ImmediateAfterPtsSys ==
    /\ (QualifyingTick /\ FreshlyQueued /\ ~Lt64(U64(5000000), op.arg)) =>
           /\ Len(output) = 1 /\ IsScheduledForm(Emitted[1])
           /\ Len(scte35_sections) = 1
           /\ scte35_sections[1].immediate = None
    /\ (QualifyingTick /\ FreshlyQueued /\ Lt64(U64(5000000), op.arg)) =>
           /\ Len(output) = 1 /\ IsImmediateForm(Emitted[1])
           /\ scte35_sections = <<>>
    /\ (QualifyingTick /\ pre.scte35_sections = <<>>) =>
           (Emitted = << NullSection >> /\ scte35_sections = <<>>)

\* the tick at 5_000_001 has sent the immediate form of the fresh Message
C4_Witness ==
    /\ QualifyingTick /\ FreshlyQueued /\ op.arg = U64(5000001)
    /\ Len(output) = 1 /\ IsImmediateForm(Emitted[1])
    /\ scte35_sections = <<>>


(***************************************************************************)
(* Properties of the null section and of the interval                      *)
(***************************************************************************)

\* the last call was a tick exactly at last_emit_cr_sys + interval, with the
\* flow definition set, a positive interval and an empty queue
TickOnInterval ==
    /\ IsTick
    /\ Configured
    /\ pre.scte35_sections = <<>>
    /\ op.arg = EmitDue

\* C11: with the flow definition set, a positive interval and no event ever
\* pushed, a tick exactly at last_emit_cr_sys + interval emits exactly one
\* section, a copy of the null section, and makes the tick the new
\* last_emit_cr_sys, so that ticks at I, 2I, 3I emit one section each; no
\* tick changes the cached null section, so the emitted sections are
\* identical.
C11_NullSectionOnInterval ==
    /\ TickOnInterval =>
          /\ Len(output) = 1
          /\ Some(output[1].ubuf) = pre.scte35_null_section
          /\ scte35_cr_sys = op.arg
    /\ IsTick => scte35_null_section = pre.scte35_null_section
    /\ (IsTick /\ output # <<>>) =>
          /\ Len(output) = 1
          /\ output[1].ubuf = NullSection

\* the third of the ticks I, 2I, 3I, for the interval of 50 ms
C11_Witness ==
    /\ TickOnInterval
    /\ pre.scte35_interval = U64(1350000)
    /\ pre.scte35_cr_sys = U64(2700000)
    /\ op.arg = U64(4050000)
    /\ Len(output) = 1

\* byte k of the uint64_t a (byte 0 is the least significant)
Byte(a, k) == (a[4 - (k \div 2)] \div (IF k % 2 = 0 THEN 1 ELSE 256)) % 256

\* the sum of the products of the bytes i.. of a and the bytes k - i of b
RECURSIVE Column(_, _, _, _)
Column(a, b, k, i) ==
    IF i > 7 THEN 0
    ELSE (IF k - i \in 0..7 THEN Byte(a, i) * Byte(b, k - i) ELSE 0)
         + Column(a, b, k, i + 1)

\* the bytes k..15 of the exact product a * b, least significant first
RECURSIVE ProductFrom(_, _, _, _)
ProductFrom(a, b, k, carry) ==
    IF k > 15 THEN <<>>
    ELSE LET s == Column(a, b, k, 0) + carry
         IN  << s % 256 >> \o ProductFrom(a, b, k + 1, s \div 256)

\* the exact product a * b fits 64 bits; its value as a uint64_t
Product(a, b) == ProductFrom(a, b, 0, 0)
Fits64(p) == \A k \in 9..16 : p[k] = 0
Low64(p) ==
    << p[8] * 256 + p[7], p[6] * 256 + p[5],
       p[4] * 256 + p[3], p[2] * 256 + p[1] >>

\* q = floor(n / d), said without a division: q * d <= n < q * d + d
IsFloorQuotient(q, n, d) ==
    LET p == Product(q, d)
    IN  /\ Fits64(p)
        /\ ~Lt64(n, Low64(p))
        /\ Lt64(Sub64(n, Low64(p)), d)

IsSetInterval == op.name = "set_scte35_interval"
IsGetInterval == op.name = "get_scte35_interval"

\* C12: after SET_SCTE35_INTERVAL(v) the interval GET_SCTE35_INTERVAL
\* returns is v; with v > 0 the call publishes one output flow definition
\* with psi_section_interval = v, octet_rate = floor(183 * 27_000_000 / v)
\* and tb_rate = 125_000; with v = 0 the call publishes none, and no tick
\* emits anything while the interval is 0.
C12_IntervalAndFlowDef ==
    /\ IsSetInterval =>
          upipe_ts_scte35g_get_scte35_interval(Ctx) = op.arg
    /\ IsGetInterval => op.arg = pre.scte35_interval
    /\ (IsSetInterval /\ op.arg # U64(0)) =>
          /\ Len(stored) = 1
          /\ output_flow_def = Some(stored[1])
          /\ stored[1].def = << "block", "mpegtspsi", "mpegtsscte35" >>
          /\ stored[1].psi_section_interval = op.arg
          /\ IsFloorQuotient(stored[1].octetrate,
                             Mul64(U64(27000000), 183), op.arg)
          /\ stored[1].tb_rate = 125000
    /\ (IsSetInterval /\ op.arg = U64(0)) => stored = <<>>
    /\ (IsTick /\ pre.scte35_interval = U64(0)) =>
          /\ output = <<>>
          /\ Ctx = pre

\* an interval of 50 ms is set: the octet rate is 3660
C12_Witness ==
    /\ IsSetInterval
    /\ op.arg = U64(1350000)
    /\ Len(stored) = 1
    /\ stored[1].octetrate = U64(3660)

\* a tick finds a message in the queue while the interval is 0
C12_WitnessZero ==
    /\ IsTick
    /\ pre.scte35_interval = U64(0)
    /\ pre.flow_def # None
    /\ pre.scte35_sections # <<>>

(***************************************************************************)
(* Properties of SET_FLOW_DEF                                              *)
(***************************************************************************)
IsSetFlowDef == op.name = "set_flow_def"

\* the flow definition of the last call is NULL or has another definition
\* than void.scte35.
RejectedFlowDef ==
    /\ IsSetFlowDef
    /\ \/ op.arg = None
       \/ ~MatchDef(op.arg[1], << "void", "scte35" >>)

\* the last call is the first SET_FLOW_DEF with a void.scte35. definition
FirstAcceptedFlowDef ==
    /\ IsSetFlowDef
    /\ ~RejectedFlowDef
    /\ pre.flow_def = None

\* C13: SET_FLOW_DEF with a NULL flow definition or a non-matching
\* definition returns an error and leaves the flow definition, the null
\* section, the output flow definition, the queue and last_emit_cr_sys
\* unchanged; the first accepted SET_FLOW_DEF stores the flow definition,
\* builds the null section and publishes the output flow definition
\* exactly when the interval is > 0.
C13_SetFlowDef ==
    /\ RejectedFlowDef =>
          /\ op.ret = "UBASE_ERR_INVALID"
          /\ Ctx = pre
          /\ stored = <<>>
          /\ output = <<>>
    /\ FirstAcceptedFlowDef =>
          /\ op.ret = "UBASE_ERR_NONE"
          /\ flow_def = op.arg
          /\ scte35_null_section = Some(NullSection)
          /\ scte35_sections = pre.scte35_sections
          /\ scte35_cr_sys = pre.scte35_cr_sys
          /\ pre.scte35_interval = U64(0) => stored = <<>>
          /\ pre.scte35_interval # U64(0) =>
                /\ Len(stored) = 1
                /\ output_flow_def = Some(stored[1])
                /\ stored[1].psi_section_interval = pre.scte35_interval

\* a flow definition with another definition is rejected while the pipe has
\* a flow definition, an output flow definition and a message in the queue
C13_Witness ==
    /\ RejectedFlowDef
    /\ op.arg # None
    /\ pre.flow_def # None
    /\ pre.output_flow_def # None
    /\ pre.scte35_sections # <<>>

\* the first accepted flow definition publishes the output flow definition
C13_WitnessAccepted ==
    /\ FirstAcceptedFlowDef
    /\ pre.scte35_interval # U64(0)
    /\ stored # <<>>

(***************************************************************************)
(* Properties on allocation failures and on the release of the pipe        *)
(***************************************************************************)

\* the objects a Message owns: the shell and each form it has
RECURSIVE OwnedBy(_)
OwnedBy(msgs) ==
    IF msgs = <<>> THEN 0
    ELSE 1 + Refs(Head(msgs).ubuf) + Refs(Head(msgs).immediate)
           + OwnedBy(Tail(msgs))

\* the objects the fields of the private context point to
Owned ==
    Refs(flow_def) + Refs(scte35_null_section) + Refs(output_flow_def)
    + Len(urefs) + OwnedBy(scte35_sections)

\* the number of allocations the synthesis of the event that starts with
\* the fragment first makes: the Message, the immediate form and, with a
\* valid pts_prog, the scheduled form
Allocations(first) ==
    IF Get(first.pts_prog, UINT64_MAX) # UINT64_MAX THEN 3 ELSE 2

\* the synthesis of the forced flush / of the final release of the last
\* push met a failing allocation
ForcedSynthesisFailed ==
    ForcedSynthesis /\ op.fail[1] \in 1..Allocations(Head(pre.urefs))
FinalSynthesisFailed ==
    FinalSynthesis /\ op.fail[2] \in 1..Allocations(ReleasedHead)

\* every synthesis of the last push met a failing allocation
SynthesisFailed ==
    /\ ForcedSynthesis \/ FinalSynthesis
    /\ ForcedSynthesis => ForcedSynthesisFailed
    /\ FinalSynthesis => FinalSynthesisFailed

\* C14: when an allocation fails during the synthesis of an INSERT or
\* TIME_SIGNAL event (the Message, the first form or the second form), a
\* fatal event is thrown, the pending queue and last_emit_cr_sys are as
\* before the push, and nothing allocated for the event stays owned: the
\* pipe holds exactly the objects its fields point to.
C14_SynthesisFailure ==
    /\ (PushedFragment /\ (ForcedSynthesisFailed \/ FinalSynthesisFailed)) =>
          /\ fatal = (IF ForcedSynthesisFailed THEN 1 ELSE 0)
                     + (IF FinalSynthesisFailed THEN 1 ELSE 0)
          /\ IsPrefix(pre.scte35_sections, scte35_sections)
          /\ live = Owned
    /\ (PushedFragment /\ SynthesisFailed) =>
          /\ fatal > 0
          /\ scte35_sections = pre.scte35_sections
          /\ scte35_cr_sys = pre.scte35_cr_sys
          /\ live = Owned

\* the second form of an INSERT event cannot be allocated while the queue
\* holds a Message and a section has been emitted
C14_Witness ==
    /\ PushedFragment
    /\ SynthesisFailed
    /\ op.arg.command_type = Some(SCTE35_INSERT_COMMAND)
    /\ op.fail[2] = 3
    /\ pre.scte35_sections # <<>>
    /\ pre.scte35_cr_sys # U64(0)

\* a send of the last tick could not duplicate the section or allocate its
\* record
SendFailed == IsTick /\ fatal > 0

\* C15: when duplicating a section or allocating its output record fails
\* during a qualifying tick, the tick removes or alters no Message and does
\* not advance last_emit_cr_sys, also when the queue holds other Messages
\* behind the failing one.
C15_FailedSendKeepsQueue ==
    SendFailed =>
        /\ scte35_sections = pre.scte35_sections
        /\ scte35_cr_sys = pre.scte35_cr_sys

\* the pipe has been released
Released == op.name = "free"

\* C16: after any sequence of pushes, empty pushes, SET_FLOW_DEF,
\* SET_SCTE35_INTERVAL and ticks, allocation failures included, followed by
\* the release of the pipe, everything the pipe allocated or accepted and
\* did not hand to the output has been released exactly once: the pipe
\* holds nothing any more, and nothing was freed that was not the pipe's
\* to free.
C16_ReleasedExactlyOnce ==
    Released =>
        /\ live = 0
        /\ Owned = 0
        /\ ~bad

(***************************************************************************)
(* Properties of the sections                                              *)
(***************************************************************************)

\* t = floor(v / 300) mod 2^33, said without the program's operators: t is
\* below 2^33 and differs from the quotient q of the binary division, which
\* is checked by a product, by a multiple of 2^33
IsTicks33(t, v) ==
    LET q == DivLoop(v, U64(300), 63, [ q |-> U64(0), r |-> U64(0) ]).q
        d == Sub64(q, t)
    IN  /\ IsFloorQuotient(q, v, U64(300))
        /\ t[1] = 0 /\ t[2] < 2
        /\ d[4] = 0 /\ d[3] = 0 /\ d[2] % 2 = 0

\* the scheduled form of the only Message the last push appended
ScheduledForm == Appended[1].ubuf

\* the last push appended one Message with a scheduled form
HasScheduledForm == Len(Appended) = 1 /\ ScheduledForm # None

(***************************************************************************)
(* C17 as stated.  For every event that carries pts_prog, pts_time in the  *)
(* scheduled form of the splice_insert or time_signal is                   *)
(* floor(pts_prog / 300) mod 2^33, for every 64-bit pts_prog; likewise     *)
(* break_duration is floor(duration / 300) mod 2^33.                       *)
(***************************************************************************)
C17_PtsTimeForEveryPtsProg ==
    (PushedCompleteEvent /\ op.arg.pts_prog # None) =>
        /\ HasScheduledForm
        /\ ScheduledForm[1].pts_time # None
        /\ IsTicks33(ScheduledForm[1].pts_time[1], op.arg.pts_prog[1])
        /\ (op.arg.command_type = Some(SCTE35_INSERT_COMMAND)
            /\ op.arg.duration # None) =>
              /\ ScheduledForm[1].break_duration # None
              /\ IsTicks33(ScheduledForm[1].break_duration[1].duration,
                           op.arg.duration[1])

\* C17, amended.  The same for every pts_prog other than UINT64_MAX and
\* every duration other than UINT64_MAX, the two values the synthesizer
\* reads as "absent", in a splice_insert that is not a cancellation and in
\* a time_signal.
C17_PtsTimeForValidPtsProg ==
    (/\ PushedCompleteEvent
     /\ op.arg.pts_prog # None
     /\ op.arg.pts_prog # Some(UINT64_MAX)
     /\ ~op.arg.cancel) =>
        /\ HasScheduledForm
        /\ ScheduledForm[1].pts_time # None
        /\ IsTicks33(ScheduledForm[1].pts_time[1], op.arg.pts_prog[1])
        /\ (/\ op.arg.command_type = Some(SCTE35_INSERT_COMMAND)
            /\ op.arg.duration # None
            /\ op.arg.duration # Some(UINT64_MAX)) =>
              /\ ScheduledForm[1].break_duration # None
              /\ IsTicks33(ScheduledForm[1].break_duration[1].duration,
                           op.arg.duration[1])

\* a splice_insert whose duration is 300 * 2^33 + 299: break_duration is 0
C17_Witness ==
    /\ PushedCompleteEvent
    /\ op.arg.command_type = Some(SCTE35_INSERT_COMMAND)
    /\ op.arg.duration = Some(<< 0, 600, 0, 299 >>)
    /\ HasScheduledForm
    /\ ScheduledForm[1].pts_time = Some(U64(30000))
    /\ ScheduledForm[1].break_duration # None
    /\ ScheduledForm[1].break_duration[1].duration = U64(0)

\* a time_signal whose pts_prog is UINT64_MAX - 1
C17_WitnessTimeSignal ==
    /\ PushedCompleteEvent
    /\ op.arg.command_type = Some(SCTE35_TIME_SIGNAL_COMMAND)
    /\ op.arg.pts_prog = Some(<< Limb - 1, Limb - 1, Limb - 1, Limb - 2 >>)
    /\ HasScheduledForm
    /\ ScheduledForm[1].pts_time = Some(<< 0, 1, 42816, 55924 >>)

\* the sections the pipe holds or has just sent
AllSections ==
    { scte35_null_section[i] : i \in DOMAIN scte35_null_section }
    \cup { scte35_sections[i].ubuf[1] :
             i \in { j \in DOMAIN scte35_sections :
                       scte35_sections[j].ubuf # None } }
    \cup { scte35_sections[i].immediate[1] :
             i \in { j \in DOMAIN scte35_sections :
                       scte35_sections[j].immediate # None } }
    \cup { output[i].ubuf : i \in DOMAIN output }

\* the bytes of a splice_time(): the flag and, with time_specified_flag, the
\* 33 bits of pts_time, 40 bits in all
SpliceTimeBytes(time_specified) == IF time_specified THEN 5 ELSE 1

\* the bytes of the command of a section, as the flags of the section make
\* a receiver read it: splice_null is empty; splice_insert is
\* splice_event_id and the cancel indicator and, when not cancelled, the
\* flags, a splice_time() when program_splice_flag = 1 and
\* splice_immediate_flag = 0, a break_duration() of 40 bits when
\* duration_flag = 1, unique_program_id, avail_num and avails_expected;
\* time_signal is a splice_time()
CommandBytes(s) ==
    IF s.command_type = SCTE35_NULL_COMMAND THEN 0
    ELSE IF s.command_type = SCTE35_INSERT_COMMAND
    THEN 4 + 1
         + (IF s.cancel THEN 0
            ELSE 1
                 + (IF s.program_splice /\ ~s.splice_immediate
                    THEN SpliceTimeBytes(s.time_specified) ELSE 0)
                 + (IF s.duration_flag THEN 5 ELSE 0)
                 + 2 + 1 + 1)
    ELSE SpliceTimeBytes(s.time_specified)

\* the bytes of the descriptors written behind descriptor_loop_length
RECURSIVE DescriptorBytes(_)
DescriptorBytes(descl) ==
    IF descl = <<>> THEN 0
    ELSE Len(Head(descl)) + DescriptorBytes(Tail(descl))

\* the bytes of the whole section: the 14 bytes from table_id to
\* splice_command_type, the command, descriptor_loop_length, the
\* descriptors and the CRC
SectionBytes(s) ==
    14 + CommandBytes(s) + 2 + DescriptorBytes(s.descl) + 4

\* C18: for every synthesized section, section_length is the number of
\* bytes from byte 3 through the end of the CRC, splice_command_length is
\* the number of bytes of the command written, descriptor_loop_length is the
\* number of bytes of the descriptors, and the block is trimmed to
\* section_length + 3 bytes.
C18_LengthsAreExact ==
    \A s \in AllSections :
        /\ s.length = SectionBytes(s) - 3
        /\ s.command_length = CommandBytes(s)
        /\ s.desclength = DescriptorBytes(s.descl)
        /\ s.size = s.length + 3

\* C19: for every synthesized section the CRC is the one of all the bytes
\* before the last four bytes of the block and is in these four bytes, and
\* it was computed when every other field of the section, section_length
\* and the descriptors included, had its final value.
C19_CrcCoversFinalSection ==
    \A s \in AllSections :
        /\ s.crc # None
        /\ s.crc[1].at = s.size - 4
        /\ s.crc[1].over =
               [ s EXCEPT !.crc = None,
                          !.size = PSI_MAX_SIZE + PSI_HEADER_SIZE ]

(***************************************************************************)
(* Properties of an input without command type                             *)
(***************************************************************************)

\* the last call pushed a record that has attributes but no command type
UntypedPush ==
    IsPush /\ ~IsEmptyInput(op.arg) /\ op.arg.command_type = None

\* C20: a non-empty input that lacks a command type is dropped: the
\* accumulator (its fragments and their order), the pending queue, the null
\* section and last_emit_cr_sys are as before the push, nothing is sent and
\* the input itself is released, so that the inputs that follow are
\* processed from the state the pipe had before.
C20_UntypedInputDropped ==
    UntypedPush =>
        /\ urefs = pre.urefs
        /\ scte35_sections = pre.scte35_sections
        /\ scte35_null_section = pre.scte35_null_section
        /\ scte35_cr_sys = pre.scte35_cr_sys
        /\ Ctx = pre
        /\ output = <<>>
        /\ fatal = 0

\* the input arrives between the fragments of an event, with a message in
\* the queue and the null section built
C20_Witness ==
    /\ UntypedPush
    /\ pre.urefs # <<>>
    /\ pre.scte35_sections # <<>>
    /\ pre.scte35_null_section # None

(***************************************************************************)
(* Properties of the scheduler                                             *)
(***************************************************************************)

\* the Messages of the queue before the last call that have a scheduled
\* form: every Message is given an immediate form when it is synthesized,
\* so these are the Messages synthesized with both forms
WithBothForms ==
    { i \in 1..Len(pre.scte35_sections) :
        pre.scte35_sections[i].ubuf # None }

\* the deadline of the Message has passed at the last tick
Passed(msg) == Lt64(msg.cr_sys, op.arg)

\* the last call handed the section to the output
Sent(section) == \E j \in 1..Len(Emitted) : Emitted[j] = section

NotPassed ==
    { i \in 1..Len(pre.scte35_sections) : ~Passed(pre.scte35_sections[i]) }

\* C22: after a qualifying tick at t the queue holds no Message whose
\* deadline is < t: each such Message is removed in the tick, with or
\* without an immediate form, and its immediate form, if it had one, has
\* been emitted in the tick; a Message whose deadline is t has not passed
\* and is not removed.
C22_ExpiredAreRemoved ==
    QualifyingTick =>
        /\ \A k \in 1..Len(scte35_sections) :
               ~Lt64(scte35_sections[k].cr_sys, op.arg)
        /\ \A i \in 1..Len(pre.scte35_sections) :
               LET msg == pre.scte35_sections[i]
               IN  (Passed(msg) /\ msg.immediate # None) =>
                       Sent(msg.immediate[1])
        /\ Len(scte35_sections) = Cardinality(NotPassed)
        /\ \A i \in NotPassed :
               \E k \in 1..Len(scte35_sections) :
                   /\ scte35_sections[k].cr_sys = pre.scte35_sections[i].cr_sys
                   /\ scte35_sections[k].ubuf = pre.scte35_sections[i].ubuf

\* a tick at the deadline of one Message and after the deadline of another
\* one that has its immediate form: the first is kept, the second removed
C22_Witness ==
    /\ QualifyingTick
    /\ \E i, j \in 1..Len(pre.scte35_sections) :
          /\ pre.scte35_sections[i].cr_sys = op.arg
          /\ Passed(pre.scte35_sections[j])
          /\ pre.scte35_sections[j].immediate # None
    /\ Len(scte35_sections) = 1
    /\ scte35_sections[1].cr_sys = op.arg
    /\ Len(output) = 2

\* a tick after the deadline of a Message without immediate form: the
\* Message is removed
C22_WitnessExpired ==
    /\ QualifyingTick
    /\ \E j \in 1..Len(pre.scte35_sections) :
          /\ Passed(pre.scte35_sections[j])
          /\ pre.scte35_sections[j].immediate = None
    /\ pre.scte35_sections # <<>>
    /\ scte35_sections = <<>>

\* C23: a qualifying tick never removes a Message whose deadline is >= the
\* tick time: it clears the immediate form of the Message, emits a copy of
\* its scheduled form, if it has one, and leaves the queued scheduled form
\* as it was; short of the release of the pipe, no call other than a
\* qualifying tick removes or alters a queued Message, so the same
\* scheduled form is emitted again on every later qualifying tick until one
\* comes with cr_sys > deadline.
C23_ScheduledUntilDeadline ==
    /\ QualifyingTick =>
          /\ \A i \in NotPassed :
                LET msg == pre.scte35_sections[i]
                IN  /\ \E k \in 1..Len(scte35_sections) :
                          scte35_sections[k]
                            = [ msg EXCEPT !.immediate = None ]
                    /\ msg.ubuf # None => Sent(msg.ubuf[1])
          /\ scte35_sections = Survivors(pre.scte35_sections, op.arg)
    /\ (~QualifyingTick /\ ~Released) =>
          IsPrefix(pre.scte35_sections, scte35_sections)

\* a qualifying tick that emits the scheduled form of a Message for the
\* second time at least: the Message had lost its immediate form in an
\* earlier tick and is kept once more
C23_Witness ==
    /\ QualifyingTick
    /\ Len(pre.scte35_sections) = 1
    /\ pre.scte35_sections[1].immediate = None
    /\ pre.scte35_sections[1].ubuf # None
    /\ ~Passed(pre.scte35_sections[1])
    /\ Emitted = << pre.scte35_sections[1].ubuf[1] >>
    /\ scte35_sections = pre.scte35_sections

\* the sections of the last call that are forms of Messages: every section
\* sent is a form of a Message or the null section
MessageFormsSent == { j \in 1..Len(Emitted) : Emitted[j] # NullSection }

\* the last tick found Messages and none of them had a form to send: each
\* had passed its deadline and had no immediate form
OnlyExpired ==
    /\ pre.scte35_sections # <<>>
    /\ \A i \in 1..Len(pre.scte35_sections) :
          /\ Passed(pre.scte35_sections[i])
          /\ pre.scte35_sections[i].immediate = None

\* C24: a qualifying tick without allocation failure emits at least one
\* section, and it emits the null section if and only if it emits no
\* scheduled or immediate form of a pending Message; a tick that only
\* removes expired Messages without immediate form emits the null section,
\* and a tick that emits a form of a Message emits no null section.
C24_NullIffNothingSent ==
    QualifyingTick =>
        /\ Len(output) >= 1
        /\ Sent(NullSection) <=> MessageFormsSent = {}
        /\ MessageFormsSent = {} <=>
               FormsAt(pre.scte35_sections, op.arg) = <<>>
        /\ MessageFormsSent = {} => Emitted = << NullSection >>
        /\ MessageFormsSent # {} =>
               Emitted = FormsAt(pre.scte35_sections, op.arg)
        /\ OnlyExpired =>
               (Emitted = << NullSection >> /\ scte35_sections = <<>>)

\* a tick that removes two expired Messages without immediate form and
\* emits the null section
C24_Witness ==
    /\ QualifyingTick
    /\ OnlyExpired
    /\ Len(pre.scte35_sections) = 2
    /\ Emitted = << NullSection >>
    /\ scte35_sections = <<>>

\* a tick that emits a form of a Message and no null section
C24_WitnessForm ==
    /\ QualifyingTick
    /\ MessageFormsSent # {}
    /\ ~Sent(NullSection)

\* C25: a Message is destroyed as soon as both of its forms are cleared:
\* when a push, an empty push or a tick has returned, the queue holds no
\* Message that has neither a scheduled nor an immediate form.
C25_NoMessageWithoutForm ==
    (IsPush \/ IsTick) =>
        \A k \in 1..Len(scte35_sections) :
            \/ scte35_sections[k].ubuf # None
            \/ scte35_sections[k].immediate # None

(***************************************************************************)
(* Properties of the release                                               *)
(***************************************************************************)

\* the accumulator the final release of the last push works on: what the
\* forced flush left, and the record pushed
FinalList ==
    (IF Forced /\ ~IsUnsupported(Head(pre.urefs)) THEN <<>> ELSE pre.urefs)
        \o << op.arg >>

\* the last push ended with a release: it did not wait for the next
\* descriptor
FinalRelease ==
    /\ PushedFragment
    /\ ~((pre.urefs # <<>> /\ ~Forced) \/ op.arg.start) \/ op.arg.end

\* the Messages the release of the fragments frags appends when allocation
\* fail of its synthesis fails: one Message built on the path of the first
\* fragment, none for a splice_null, for a command type that is not handled
\* and for a synthesis that fails
Synthesized(frags, fail) ==
    IF IsSpliceEvent(Head(frags)) /\ fail \notin 1..Allocations(Head(frags))
    THEN << ExpectedMessage(frags) >>
    ELSE <<>>

\* the release of the fragments frags rebuilds the null section: the first
\* fragment is a splice_null, the flow definition is set and the block is
\* allocated
RebuildsNull(frags, fail) ==
    /\ Head(frags).command_type = Some(SCTE35_NULL_COMMAND)
    /\ pre.flow_def # None
    /\ fail # 1

\* C26: a release takes the path of the command type of the first fragment
\* of the accumulator, whatever the command types of the fragments behind
\* it: splice_insert and time_signal append one Message of that command,
\* splice_null rebuilds the null section; and for each of these types the
\* accumulator is empty when the push returns, also when an allocation of
\* the synthesis failed.
C26_PathOfFirstFragment ==
    PushedFragment =>
        /\ Appended =
               (IF Forced THEN Synthesized(pre.urefs, op.fail[1]) ELSE <<>>)
               \o (IF FinalRelease THEN Synthesized(FinalList, op.fail[2])
                   ELSE <<>>)
        /\ scte35_null_section =
               IF \/ Forced /\ RebuildsNull(pre.urefs, op.fail[1])
                  \/ FinalRelease /\ RebuildsNull(FinalList, op.fail[2])
               THEN Some(NullSection)
               ELSE pre.scte35_null_section
        /\ (FinalRelease /\ ~IsUnsupported(Head(FinalList))) => urefs = <<>>
        /\ (Forced /\ ~IsUnsupported(Head(pre.urefs)) /\ ~FinalRelease) =>
               urefs = << op.arg >>

\* the release of three fragments, a time_signal followed by two fragments
\* of type INSERT: one Message, a time_signal with the descriptor of the
\* second fragment
C26_Witness ==
    /\ FinalRelease
    /\ Len(FinalList) = 3
    /\ FinalList[1].command_type = Some(SCTE35_TIME_SIGNAL_COMMAND)
    /\ FinalList[2].command_type = Some(SCTE35_INSERT_COMMAND)
    /\ FinalList[3].command_type = Some(SCTE35_INSERT_COMMAND)
    /\ Len(Appended) = 1
    /\ Appended[1].immediate[1].command_type = SCTE35_TIME_SIGNAL_COMMAND
    /\ Appended[1].immediate[1].descl = << << 2, 1, 7 >> >>
    /\ urefs = <<>>

\* the release of an INSERT followed by a terminator of type TIME_SIGNAL
\* whose second allocation fails: no Message, the accumulator is empty
C26_WitnessFailure ==
    /\ FinalRelease
    /\ Len(FinalList) = 2
    /\ FinalList[1].command_type = Some(SCTE35_INSERT_COMMAND)
    /\ FinalList[2].command_type = Some(SCTE35_TIME_SIGNAL_COMMAND)
    /\ op.fail[2] = 2
    /\ Appended = <<>>
    /\ fatal = 1
    /\ urefs = <<>>

(***************************************************************************)
(* Properties of the configuration                                         *)
(***************************************************************************)

\* the last call was a SET_FLOW_DEF that was accepted and in which the
\* allocation of the null section did not fail
AcceptedFlowDef ==
    /\ IsSetFlowDef
    /\ op.ret = "UBASE_ERR_NONE"
    /\ op.fail[2] = 0

\* C27: the null section is rebuilt on every accepted SET_FLOW_DEF: after an
\* accepted SET_FLOW_DEF whose own allocation of the null section succeeded
\* the null section is present, also when an earlier SET_FLOW_DEF was
\* accepted and could not allocate the null section.
C27_NullSectionAfterSetFlowDef ==
    AcceptedFlowDef => scte35_null_section # None

(***************************************************************************)
(* Properties of the descriptors                                           *)
(***************************************************************************)

\* the lists of fragments of a splice_insert or time_signal the last push
\* released, in the order of their release: the accumulator met by a
\* start=true input, and the accumulator the push ends with
ReleasedLists ==
    SelectSeq((IF Forced THEN << pre.urefs >> ELSE <<>>)
                  \o (IF FinalRelease THEN << FinalList >> ELSE <<>>),
              LAMBDA frags : IsSpliceEvent(Head(frags)))

\* the descriptors of the fragments frags whose export succeeds, in the
\* order of the fragments
Exported(frags) ==
    LET ok == SelectSeq(frags, LAMBDA uref : ExportDesc(uref) # None)
    IN  [ i \in 1..Len(ok) |-> ExportDesc(ok[i])[1] ]

\* the section s has the descriptors descl behind its command, inside its
\* block, and their sizes add up to its descriptor_loop_length
Carries(s, descl) ==
    /\ s.descl = descl
    /\ s.desclength = DesclLength(descl)
    /\ 14 + CommandBytes(s) + 2 + DesclLength(descl) + 4 <= s.size

\* C28: both forms of a time_signal carry exactly the descriptors of the
\* fragments behind the first whose export succeeds, in the order of
\* arrival, with descriptor_loop_length the sum of their sizes, a failed
\* export skipped and the synthesis carried through; the forms of a
\* splice_insert carry no descriptor, whatever the fragments behind the
\* first.
C28_DescriptorsOfContinuations ==
    PushedFragment =>
        /\ Len(Appended) = Len(ReleasedLists)
        /\ \A i \in 1..Len(Appended) :
              \A form \in { Appended[i].ubuf, Appended[i].immediate }
                              \ { None } :
                  Carries(form[1],
                          IF Head(ReleasedLists[i]).command_type
                                 = Some(SCTE35_TIME_SIGNAL_COMMAND)
                          THEN Exported(Tail(ReleasedLists[i]))
                          ELSE <<>>)

(***************************************************************************)
(* Properties of the repetition interval                                   *)
(***************************************************************************)

\* the last call was a tick that handed a section to the output
EmittingTick == IsTick /\ Emitted # <<>>

\* the date a + b is a date of the 64-bit clock: the sum does not wrap
NoWrap(a, b) == ~Lt64(Add64(a, b), a)

\* C29: of two ticks that both emit, with no event synthesis and no change
\* of the interval between them (here: with no call at all between them),
\* the later has a cr_sys of at least the cr_sys of the earlier plus the
\* interval, and a tick whose cr_sys is lower than the cr_sys of the last
\* emitting tick does not emit.
C29_MinimumRepetitionInterval ==
    [][ (EmittingTick /\ EmittingTick') =>
            /\ NoWrap(op.arg, scte35_interval)
            /\ ~Lt64(op'.arg, Add64(op.arg, scte35_interval))
            /\ ~Lt64(op'.arg, op.arg) ]_vars

(***************************************************************************)
(* Properties of the immediate form                                        *)
(***************************************************************************)

\* the Messages of the queue before the last call whose immediate form the
\* last tick sends: the deadline has passed and the form is there
ImmediateDue ==
    { i \in 1..Len(pre.scte35_sections) :
        /\ Passed(pre.scte35_sections[i])
        /\ pre.scte35_sections[i].immediate # None }

\* the sequence a is b with some of its elements left out
RECURSIVE IsSubSeq(_, _)
IsSubSeq(a, b) ==
    IF a = <<>> THEN TRUE
    ELSE IF b = <<>> THEN FALSE
    ELSE IF Head(a) = Head(b) THEN IsSubSeq(Tail(a), Tail(b))
    ELSE IsSubSeq(a, Tail(b))

\* C30: the immediate form of a Message is emitted at most once in the
\* lifetime of the Message: only a qualifying tick emits; it emits at most
\* one form for each Message that has a form at the tick time, in the order
\* of the queue, the immediate form of a Message only once the deadline has
\* passed, and it removes every Message whose deadline has passed, so the
\* tick that emits the immediate form of a Message removes the Message; the
\* Messages it leaves have no immediate form, and no other call emits,
\* removes a Message or puts one back, short of the release of the pipe.
C30_ImmediateAtMostOnce ==
    /\ QualifyingTick =>
          /\ IsSubSeq(Emitted,
                      IF FormsAt(pre.scte35_sections, op.arg) = <<>>
                      THEN << NullSection >>
                      ELSE FormsAt(pre.scte35_sections, op.arg))
          /\ Len(scte35_sections)
                 <= Len(pre.scte35_sections) - Cardinality(ImmediateDue)
          /\ \A k \in 1..Len(scte35_sections) :
                 /\ scte35_sections[k].immediate = None
                 /\ ~Lt64(scte35_sections[k].cr_sys, op.arg)
    /\ ~QualifyingTick =>
          /\ Emitted = <<>>
          /\ ~Released => IsPrefix(pre.scte35_sections, scte35_sections)

\* a tick after the deadline of an event without pts_prog, whose Message
\* has an immediate form only: the form is emitted and the queue is empty
C30_Witness ==
    /\ QualifyingTick
    /\ Len(pre.scte35_sections) = 1
    /\ ImmediateDue = { 1 }
    /\ pre.scte35_sections[1].ubuf = None
    /\ Emitted = << pre.scte35_sections[1].immediate[1] >>
    /\ scte35_sections = <<>>

\* a tick that emits the immediate form of one Message, which it removes,
\* and the scheduled form of another, which it keeps
C30_WitnessKept ==
    /\ QualifyingTick
    /\ Len(pre.scte35_sections) = 2
    /\ Cardinality(ImmediateDue) = 1
    /\ Len(Emitted) = 2
    /\ Len(scte35_sections) = 1
    /\ scte35_sections[1].ubuf # None

(***************************************************************************)
(* Properties of the capacity of the block                                 *)
(***************************************************************************)

\* C31: every synthesized section fits the block allocated for it: the
\* bytes written, header, command, descriptor loop and CRC, do not exceed
\* the PSI_MAX_SIZE + PSI_HEADER_SIZE = 1024 bytes of the block, and
\* section_length does not exceed PSI_MAX_SIZE = 1021, whatever the number
\* of continuation fragments of a time_signal and the lengths of their
\* descriptors.
C31_SectionFitsBlock ==
    \A s \in AllSections :
        /\ SectionBytes(s) <= PSI_MAX_SIZE + PSI_HEADER_SIZE
        /\ s.length <= PSI_MAX_SIZE

(***************************************************************************)
(* Properties of the release of a splice_null                              *)
(***************************************************************************)

\* the first fragment of the list frags is a splice_null
IsNullHead(frags) == Head(frags).command_type = Some(SCTE35_NULL_COMMAND)

\* the last push released one or two lists, each headed by a splice_null
NullRelease ==
    /\ PushedFragment
    /\ Forced \/ FinalRelease
    /\ Forced => IsNullHead(pre.urefs)
    /\ FinalRelease => IsNullHead(FinalList)

\* what the release of a splice_null leaves: no Message appended, the
\* queue, last_emit_cr_sys, the interval and the flow definition as they
\* were, nothing sent, the accumulator empty or holding the record pushed
\* behind a forced release, and the null section rebuilt when the flow
\* definition is set and the block is allocated, else as it was
NullReleaseFrame ==
    /\ Appended = <<>>
    /\ scte35_sections = pre.scte35_sections
    /\ scte35_cr_sys = pre.scte35_cr_sys
    /\ scte35_interval = pre.scte35_interval
    /\ flow_def = pre.flow_def
    /\ Emitted = <<>>
    /\ urefs = IF FinalRelease THEN <<>> ELSE << op.arg >>
    /\ scte35_null_section =
           IF \/ Forced /\ RebuildsNull(pre.urefs, op.fail[1])
              \/ FinalRelease /\ RebuildsNull(FinalList, op.fail[2])
           THEN Some(NullSection)
           ELSE pre.scte35_null_section

\* C32: the release of an event whose first fragment is a splice_null
\* appends no Message, leaves the pending queue and last_emit_cr_sys as
\* they were, empties the accumulator and only rebuilds the null section,
\* which it leaves alone when the flow definition is not set; a tick that
\* follows the release emits what it would have emitted before the
\* release: the forms the pending Messages have at its cr_sys, or the null
\* section, on the same condition on last_emit_cr_sys and the interval.
C32_NullReleaseKeepsQueue ==
    [][ /\ NullRelease' => NullReleaseFrame'
        /\ (PushedFragment' /\ Forced' /\ IsNullHead(pre'.urefs)) =>
               Appended' = IF FinalRelease'
                           THEN Synthesized(FinalList', op'.fail[2])
                           ELSE <<>>
        /\ (NullRelease /\ IsTick') =>
               Emitted' =
                   IF \/ pre.flow_def = None
                      \/ scte35_null_section = None
                      \/ pre.scte35_interval = U64(0)
                      \/ Lt64(op'.arg, Add64(pre.scte35_cr_sys,
                                             pre.scte35_interval))
                   THEN <<>>
                   ELSE IF FormsAt(pre.scte35_sections, op'.arg) = <<>>
                   THEN << NullSection >>
                   ELSE FormsAt(pre.scte35_sections, op'.arg) ]_vars

\* the release of a complete splice_null after an emission, with the flow
\* definition set and a Message in the queue that has its scheduled form:
\* the Message and last_emit_cr_sys are as they were
C32_Witness ==
    /\ NullRelease
    /\ op.arg.start /\ op.arg.end
    /\ pre.flow_def # None
    /\ pre.scte35_cr_sys # U64(0)
    /\ Len(scte35_sections) = 1
    /\ scte35_sections[1].ubuf # None
    /\ scte35_sections = pre.scte35_sections
    /\ scte35_cr_sys = pre.scte35_cr_sys
    /\ urefs = <<>>

\* the release of a splice_null while the flow definition is not set: the
\* null section is not built
C32_WitnessNoFlowDef ==
    /\ NullRelease
    /\ pre.flow_def = None
    /\ scte35_null_section = None
    /\ urefs = <<>>

(***************************************************************************)
(* Properties of an event without pts_sys                                  *)
(***************************************************************************)

\* the Messages of the queue before the last call whose deadline is 0
WithoutDeadline ==
    { i \in 1..Len(pre.scte35_sections) :
        pre.scte35_sections[i].cr_sys = U64(0) }

\* C33: the Message of a splice_insert or time_signal pushed without
\* pts_sys has the deadline 0 and an immediate form; the first qualifying
\* tick after the push has a cr_sys > 0, so the deadline has passed: the
\* tick emits the immediate form of the Message, not its scheduled form,
\* also when the event had a pts_prog, and removes the Message; no Message
\* with deadline 0 is left after a qualifying tick, and none loses its
\* immediate form before.
C33_NoPtsSysImmediateOnly ==
    /\ PushedFragment =>
          /\ Len(Appended) = Len(ReleasedLists)
          /\ \A i \in 1..Len(Appended) :
                Head(ReleasedLists[i]).pts_sys = None =>
                    /\ Appended[i].cr_sys = U64(0)
                    /\ Appended[i].immediate # None
    /\ \A k \in 1..Len(scte35_sections) :
          scte35_sections[k].cr_sys = U64(0) =>
              scte35_sections[k].immediate # None
    /\ QualifyingTick =>
          /\ \A i \in WithoutDeadline :
                LET msg == pre.scte35_sections[i]
                IN  /\ Passed(msg)
                    /\ FormAt(msg, op.arg) = msg.immediate
                    /\ Sent(msg.immediate[1])
          /\ Emitted = FormsAt(pre.scte35_sections, op.arg)
                \/ WithoutDeadline = {}
          /\ \A k \in 1..Len(scte35_sections) :
                scte35_sections[k].cr_sys # U64(0)
          /\ Len(scte35_sections)
                 <= Len(pre.scte35_sections) - Cardinality(WithoutDeadline)

\* the first qualifying tick after the push of an event that has a pts_prog
\* and no pts_sys: its Message has both forms, the tick emits the immediate
\* form alone and the queue is empty
C33_Witness ==
    /\ QualifyingTick
    /\ Len(pre.scte35_sections) = 1
    /\ WithoutDeadline = { 1 }
    /\ pre.scte35_sections[1].ubuf # None
    /\ pre.scte35_sections[1].ubuf # pre.scte35_sections[1].immediate
    /\ Emitted = << pre.scte35_sections[1].immediate[1] >>
    /\ scte35_sections = <<>>

(***************************************************************************)
(* Properties of the skip pipe                                             *)
(***************************************************************************)

\* the last call on the skip pipe was UPIPE_SKIP_GET_OFFSET with a pointer
\* to a variable of the caller
IsGetOffset ==
    /\ skip_call.command = "UPIPE_SKIP_GET_OFFSET"
    /\ skip_call.arg # None

\* C34: UPIPE_SKIP_GET_OFFSET is a pure read: after any sequence of
\* UPIPE_SKIP_SET_OFFSET and UPIPE_SKIP_GET_OFFSET it leaves the stored
\* offset as it was and the caller's variable holds the value given to the
\* most recent UPIPE_SKIP_SET_OFFSET, 0 if there was none, whatever the
\* variable held before the call.
C34_GetOffsetIsPureRead ==
    IsGetOffset =>
        /\ skip_call.ret
        /\ offset = skip_call.before
        /\ skip_call.out = Some(skip_call.set)
=============================================================================
